---- MODULE Spec2Model ----
(***************************************************************************)
(* Lattice: availability resolution, suggestion ranking and the            *)
(* generation / confirmation flow around it.                               *)
(*                                                                         *)
(* Instants are integer seconds on one UTC time line; day 0 is a Saturday  *)
(* and day 1 the Sunday on which the two US zones start daylight time.     *)
(* Local calendar dates are day numbers, minutes of day are integers.      *)
(* Scores are exact fractions of ScoreOne (the value 1.0).                 *)
(***************************************************************************)
EXTENDS Integers, Sequences, FiniteSets, TLC

VARIABLES
    input,      \* the arguments of the function called (the
                \* GenerateSuggestionsInput of the engine calls)
    out,        \* result of the first call
    out2,       \* result of a second call
    pc,         \* which calls have been made ("ready" | "once" | "twice" for
                \* the engine); "server" while the server runs
    now,        \* the clock, in seconds
    templates,  \* AvailabilityTemplate rows with their windows
    availabilityOverrides, \* AvailabilityOverride rows
    busyBlocks, \* BusyBlock rows (provider GOOGLE)
    requests,   \* SuggestionRequest rows with attendees and candidates
    redis,      \* cached suggestion entries
    events,     \* ScheduledEvent rows
    idempotencyKeys, \* IdempotencyKey rows of suggestions.confirm
    response    \* the last HTTP response

engineVars == <<input, out, out2, pc>>
serverVars == <<now, templates, availabilityOverrides, busyBlocks, requests, redis, events,
                idempotencyKeys, response>>

\* ------------------------------------------------------------------ bounds

MaxAttendees == 2
MaxOverrides == 1

\* ------------------------------------------------------------- arithmetic

Min(a, b) == IF a <= b THEN a ELSE b
Max(a, b) == IF a >= b THEN a ELSE b

CeilDiv(a, b) == -((-a) \div b)

RECURSIVE Gcd(_, _)
Gcd(a, b) == IF b = 0 THEN a ELSE Gcd(b, a % b)

RECURSIVE LcmUpTo(_)
LcmUpTo(n) == IF n <= 1 THEN 1 ELSE LET l == LcmUpTo(n - 1) IN (l * n) \div Gcd(l, n)

\* 1.0 as an integer: every k/n, every mean of penalties in hundredths over
\* k <= n attendees and the weighted total are whole multiples of 1/ScoreOne.
ScoreOne == 1000 * LcmUpTo(MaxAttendees)

Range(s) == {s[i] : i \in DOMAIN s}

\* The element of a one-element set. Only({e : x \in {v}}) is e with x bound
\* to the value of v, computed once (a const binding of the code).
Only(S) == CHOOSE r \in S : TRUE

\* ------------------------------------------------------------------- time

SecondsPerMinute == 60
MinutesPerDay == 1440
SecondsPerDay == MinutesPerDay * SecondsPerMinute

\* Zone rules (tz data used by luxon): offset in minutes before and from
\* the instant `at`. The US zones spring forward on day 1 at 02:00 local.
ZoneRule(z) ==
    CASE z = "America/New_York" ->
            [before |-> -300, at |-> SecondsPerDay + 7 * 3600, after |-> -240]
      [] z = "America/Los_Angeles" ->
            [before |-> -480, at |-> SecondsPerDay + 10 * 3600, after |-> -420]
      [] OTHER -> [before |-> 0, at |-> 0, after |-> 0]

\* DateTime.setZone: the offset in force at a UTC instant.
OffsetAt(z, t) == IF t < ZoneRule(z).at THEN ZoneRule(z).before ELSE ZoneRule(z).after

LocalSeconds(z, t) == t + SecondsPerMinute * OffsetAt(z, t)

\* DateTime.toISODate: the local calendar date of an instant.
LocalDate(z, t) == LocalSeconds(z, t) \div SecondsPerDay

\* DateTime.fromISO(date, {zone}).startOf("day"): the instant of local midnight.
StartOfDay(z, date) ==
    LET wall == date * SecondsPerDay
        t1 == wall - SecondsPerMinute * ZoneRule(z).before
    IN IF t1 < ZoneRule(z).at THEN t1 ELSE wall - SecondsPerMinute * ZoneRule(z).after

\* DateTime.weekday (1 = Monday .. 7 = Sunday); day 0 is a Saturday.
Weekday(date) == ((date + 5) % 7) + 1

\* engine.ts minutesSinceStartOfDay: elapsed minutes since local midnight, rounded.
minutesSinceStartOfDay(z, t) ==
    (t - StartOfDay(z, LocalDate(z, t)) + 30) \div SecondsPerMinute

\* -------------------------------------------------------- interval algebra

\* Mutant: every minute is moved one minute later before clamping.
clampMinute_shifted(n) == Max(0, Min(MinutesPerDay, n + 1))

clampMinute(n) == Max(0, Min(MinutesPerDay, n))

\* Array.prototype.sort by start (stable insertion).
RECURSIVE InsertByStart(_, _)
InsertByStart(sorted, iv) ==
    IF sorted = <<>> THEN <<iv>>
    ELSE IF iv.start < Head(sorted).start THEN <<iv>> \o sorted
    ELSE <<Head(sorted)>> \o InsertByStart(Tail(sorted), iv)

RECURSIVE SortByStart(_)
SortByStart(s) ==
    IF s = <<>> THEN <<>>
    ELSE InsertByStart(SortByStart(SubSeq(s, 1, Len(s) - 1)), s[Len(s)])

\* Mutant: intervals that touch end to start are not merged.
RECURSIVE MergeSorted_touchingKept(_, _)
MergeSorted_touchingKept(merged, rest) ==
    IF rest = <<>> THEN merged
    ELSE LET cur == Head(rest)
             n == Len(merged)
         IN IF n = 0 \/ cur.start >= merged[n].end
            THEN MergeSorted_touchingKept(Append(merged, cur), Tail(rest))
            ELSE MergeSorted_touchingKept(
                    [merged EXCEPT ![n] = [start |-> merged[n].start,
                                           end |-> Max(merged[n].end, cur.end)]],
                    Tail(rest))

RECURSIVE MergeSorted(_, _)
MergeSorted(merged, rest) ==
    IF rest = <<>> THEN merged
    ELSE LET cur == Head(rest)
             n == Len(merged)
         IN IF n = 0 \/ cur.start > merged[n].end
            THEN MergeSorted(Append(merged, cur), Tail(rest))
            ELSE MergeSorted(
                    [merged EXCEPT ![n] = [start |-> merged[n].start,
                                           end |-> Max(merged[n].end, cur.end)]],
                    Tail(rest))

ClampAll(intervals) ==
    [i \in DOMAIN intervals |->
        [start |-> clampMinute(intervals[i].start), end |-> clampMinute(intervals[i].end)]]

KeepInterval(iv, minSize) == iv.start < iv.end /\ iv.end - iv.start >= minSize

normalizeIntervals(intervals, minSize) ==
    LET clamped == ClampAll(intervals)
        cleaned == SortByStart(SelectSeq(clamped, LAMBDA iv : KeepInterval(iv, minSize)))
    IN MergeSorted(<<>>, cleaned)

\* Mutant: the base intervals are left out of the union.
unionIntervals_baseDropped(base, add, minSize) == normalizeIntervals(add, minSize)

unionIntervals(base, add, minSize) == normalizeIntervals(base \o add, minSize)

\* Mutant: the remainder to the right of a removal is lost.
RECURSIVE SplitFragments_leftOnly(_, _)
SplitFragments_leftOnly(fragments, ri) ==
    IF fragments = <<>> THEN <<>>
    ELSE LET f == Head(fragments)
             rest == SplitFragments_leftOnly(Tail(fragments), ri)
         IN IF ri.end <= f.start \/ ri.start >= f.end
            THEN <<f>> \o rest
            ELSE (IF ri.start > f.start THEN <<[start |-> f.start, end |-> ri.start]>> ELSE <<>>)
                 \o rest

\* One removal interval applied to the current fragments of a base interval.
RECURSIVE SplitFragments(_, _)
SplitFragments(fragments, ri) ==
    IF fragments = <<>> THEN <<>>
    ELSE LET f == Head(fragments)
             rest == SplitFragments(Tail(fragments), ri)
         IN IF ri.end <= f.start \/ ri.start >= f.end
            THEN <<f>> \o rest
            ELSE (IF ri.start > f.start THEN <<[start |-> f.start, end |-> ri.start]>> ELSE <<>>)
                 \o (IF ri.end < f.end THEN <<[start |-> ri.end, end |-> f.end]>> ELSE <<>>)
                 \o rest

RECURSIVE SubtractFrom(_, _)
SubtractFrom(fragments, r) ==
    IF r = <<>> \/ fragments = <<>> THEN fragments
    ELSE SubtractFrom(SplitFragments(fragments, Head(r)), Tail(r))

RECURSIVE SubtractEach(_, _)
SubtractEach(b, r) ==
    IF b = <<>> THEN <<>>
    ELSE SubtractFrom(<<Head(b)>>, r) \o SubtractEach(Tail(b), r)

\* Mutant: the removals are never applied.
subtractIntervals_removalsSkipped(base, remove, minSize) == normalizeIntervals(base, minSize)

subtractIntervals(base, remove, minSize) ==
    LET b == normalizeIntervals(base, minSize)
        r == normalizeIntervals(remove, minSize)
    IN IF r = <<>> THEN b ELSE normalizeIntervals(SubtractEach(b, r), minSize)

\* time.ts overrideToLocalIntervalForDate: the override clipped to one local date;
\* the result is a list holding the interval, empty for null.
overrideToLocalIntervalForDate(override, date, z) ==
    LET dayStart == StartOfDay(z, date)
        dayEnd == StartOfDay(z, date + 1)
        s == Max(override.startAt, dayStart)
        e == Min(override.endAt, dayEnd)
    IN IF e <= s THEN <<>>
       ELSE <<[start |-> (s - dayStart) \div SecondsPerMinute,
               end |-> CeilDiv(e - dayStart, SecondsPerMinute)]>>

\* ----------------------------------------------------------------- engine

DefaultMaxCandidates == 25

clamp01(value) == Max(0, Min(ScoreOne, value))

\* Penalty in hundredths (0, 0.25, 0.6, 1).
penaltyForLocalInterval(startMinute, endMinute) ==
    IF startMinute >= 9 * 60 /\ endMinute <= 17 * 60 THEN 0
    ELSE IF startMinute >= 8 * 60 /\ endMinute <= 18 * 60 THEN 25
    ELSE IF startMinute >= 7 * 60 /\ endMinute <= 19 * 60 THEN 60
    ELSE 100

\* Map.get(key) ?? []
MapGet(map, key) == IF key \in DOMAIN map THEN map[key] ELSE <<>>

\* The local dates the cursor of indexOverridesByLocalDate visits for one override.
RECURSIVE CursorDates(_, _, _)
CursorDates(z, date, last) ==
    IF StartOfDay(z, date) <= last
    THEN {date} \cup CursorDates(z, date + 1, last)
    ELSE {}

IndexedDates(z, override) ==
    CursorDates(z, LocalDate(z, override.startAt),
                StartOfDay(z, LocalDate(z, override.endAt)))

indexOverridesByLocalDate(timeZone, overrides) ==
    [date \in UNION {IndexedDates(timeZone, overrides[i]) : i \in DOMAIN overrides} |->
        SelectSeq(overrides, LAMBDA o : date \in IndexedDates(timeZone, o))]

buildWindowsByDay(windows) ==
    [day \in {windows[i].dayOfWeek : i \in DOMAIN windows} |->
        normalizeIntervals(
            [i \in 1..Len(SelectSeq(windows, LAMBDA w : w.dayOfWeek = day)) |->
                LET w == SelectSeq(windows, LAMBDA x : x.dayOfWeek = day)[i]
                IN [start |-> w.startMinute, end |-> w.endMinute]],
            1)]

RECURSIVE LocalIntervalsOfKind(_, _, _, _)
LocalIntervalsOfKind(overrides, isAdd, date, z) ==
    IF overrides = <<>> THEN <<>>
    ELSE LET o == Head(overrides)
             local == overrideToLocalIntervalForDate(o, date, z)
         IN (IF (o.kind = "AVAILABLE") = isAdd THEN local ELSE <<>>)
            \o LocalIntervalsOfKind(Tail(overrides), isAdd, date, z)

\* Mutant: the AVAILABLE overrides are added after the subtraction.
computeEffectiveIntervalsForDate_addsLast(timeZone, dateISO, weekday, baseByDay, overridesByDate) ==
    LET base == MapGet(baseByDay, weekday)
        overrides == MapGet(overridesByDate, dateISO)
        adds == LocalIntervalsOfKind(overrides, TRUE, dateISO, timeZone)
        removes == LocalIntervalsOfKind(overrides, FALSE, dateISO, timeZone)
    IN unionIntervals(subtractIntervals(base, removes, 1), adds, 1)

computeEffectiveIntervalsForDate(timeZone, dateISO, weekday, baseByDay, overridesByDate) ==
    LET base == MapGet(baseByDay, weekday)
        overrides == MapGet(overridesByDate, dateISO)
        adds == LocalIntervalsOfKind(overrides, TRUE, dateISO, timeZone)
        removes == LocalIntervalsOfKind(overrides, FALSE, dateISO, timeZone)
        withAdds == unionIntervals(base, adds, 1)
        effective == subtractIntervals(withAdds, removes, 1)
    IN normalizeIntervals(effective, 1)

\* Mutant: partial coverage counts.
Covers_partial(effective, startMinute, endMinute) ==
    \E i \in DOMAIN effective :
        effective[i].start < endMinute /\ effective[i].end > startMinute

Covers(effective, startMinute, endMinute) ==
    \E i \in DOMAIN effective :
        effective[i].start <= startMinute /\ effective[i].end >= endMinute

\* Mutant: the cache is keyed by the user alone.
isUserAvailableForUtcInterval_keyedByUser(startAtUtc, endAtUtc, attendee, cache) ==
    LET z == attendee.timeZone
        startDate == LocalDate(z, startAtUtc)
        endDate == LocalDate(z, endAtUtc)
        startMinute == minutesSinceStartOfDay(z, startAtUtc)
        endMinute == minutesSinceStartOfDay(z, endAtUtc)
        cacheKey == <<attendee.userId>>
        effective ==
            IF cacheKey \in DOMAIN cache THEN cache[cacheKey]
            ELSE computeEffectiveIntervalsForDate(z, startDate, Weekday(startDate),
                                                  attendee.baseByDay, attendee.overridesByDate)
    IN IF startDate # endDate
       THEN [ok |-> FALSE, covers |-> FALSE, startMinute |-> 0, endMinute |-> 0,
             cache |-> cache]
       ELSE [ok |-> TRUE, covers |-> Covers(effective, startMinute, endMinute),
             startMinute |-> startMinute, endMinute |-> endMinute,
             cache |-> [k \in DOMAIN cache \cup {cacheKey} |->
                           IF k = cacheKey THEN effective ELSE cache[k]]]

\* Mutant: the two local dates are not compared.
isUserAvailableForUtcInterval_datesIgnored(startAtUtc, endAtUtc, attendee, cache) ==
    LET z == attendee.timeZone
        startDate == LocalDate(z, startAtUtc)
        startMinute == minutesSinceStartOfDay(z, startAtUtc)
        endMinute == minutesSinceStartOfDay(z, endAtUtc)
        effective ==
            computeEffectiveIntervalsForDate(z, startDate, Weekday(startDate),
                                             attendee.baseByDay, attendee.overridesByDate)
    IN [ok |-> TRUE, covers |-> Covers(effective, startMinute, endMinute),
        startMinute |-> startMinute, endMinute |-> endMinute,
        cache |-> [k \in DOMAIN cache \cup {<<attendee.userId, startDate>>} |-> effective]]

\* attendee: a prepared attendee (userId, timeZone, baseByDay, overridesByDate);
\* cache: its effectiveCache, a map from <<userId, date>> to effective intervals.
isUserAvailableForUtcInterval(startAtUtc, endAtUtc, attendee, cache) ==
    LET z == attendee.timeZone
        startDate == LocalDate(z, startAtUtc)
        endDate == LocalDate(z, endAtUtc)
        startMinute == minutesSinceStartOfDay(z, startAtUtc)
        endMinute == minutesSinceStartOfDay(z, endAtUtc)
        cacheKey == <<attendee.userId, startDate>>
        effective ==
            IF cacheKey \in DOMAIN cache THEN cache[cacheKey]
            ELSE computeEffectiveIntervalsForDate(z, startDate, Weekday(startDate),
                                                  attendee.baseByDay, attendee.overridesByDate)
    IN IF startDate # endDate
       THEN [ok |-> FALSE, covers |-> FALSE, startMinute |-> 0, endMinute |-> 0,
             cache |-> cache]
       ELSE [ok |-> TRUE, covers |-> Covers(effective, startMinute, endMinute),
             startMinute |-> startMinute, endMinute |-> endMinute,
             cache |-> [k \in DOMAIN cache \cup {cacheKey} |->
                           IF k = cacheKey THEN effective ELSE cache[k]]]

prepareAttendee(attendee) ==
    [userId |-> attendee.userId, timeZone |-> attendee.timeZone,
     windows |-> attendee.windows, overrides |-> attendee.overrides,
     baseByDay |-> buildWindowsByDay(attendee.windows),
     overridesByDate |-> indexOverridesByLocalDate(attendee.timeZone, attendee.overrides)]

\* The offsets of the inner for loop.
RECURSIVE Offsets(_, _)
Offsets(inp, offset) ==
    IF offset + inp.durationMinutes <= inp.dayEndMinute
    THEN <<offset>> \o Offsets(inp, offset + inp.stepMinutes)
    ELSE <<>>

\* The windows in the order the two loops visit them: <<startAtUtc, endAtUtc>>.
RECURSIVE Windows(_, _)
Windows(inp, date) ==
    IF StartOfDay(inp.timeZone, date) <= StartOfDay(inp.timeZone, inp.rangeEnd)
    THEN LET cursor == StartOfDay(inp.timeZone, date)
             dayEnd == cursor + inp.dayEndMinute * SecondsPerMinute
             offs == Offsets(inp, inp.dayStartMinute)
             all == [i \in DOMAIN offs |->
                        <<cursor + offs[i] * SecondsPerMinute,
                          cursor + (offs[i] + inp.durationMinutes) * SecondsPerMinute>>]
         IN SelectSeq(all, LAMBDA w : ~(w[2] > dayEnd)) \o Windows(inp, date + 1)
    ELSE <<>>

\* Mutant: an attendee who cannot attend is not recorded.
AfterAttendee_missingDropped(w, a, i, acc, available) ==
    Only({
    LET caches == [acc.caches EXCEPT ![i] = result.cache]
    IN IF ~result.ok \/ ~result.covers
       THEN [acc EXCEPT !.caches = caches]
       ELSE [acc EXCEPT !.availableUserIds = Append(@, a.userId),
            !.penalties = Append(@,
                [userId |-> a.userId,
                 penalty |-> penaltyForLocalInterval(result.startMinute,
                                                     result.endMinute),
                 startLocal |-> [wall |-> LocalSeconds(a.timeZone, w[1]),
                                 offset |-> OffsetAt(a.timeZone, w[1])],
                 endLocal |-> [wall |-> LocalSeconds(a.timeZone, w[2]),
                               offset |-> OffsetAt(a.timeZone, w[2])],
                 tz |-> a.timeZone]),
            !.caches = caches]
    : result \in {available}})

\* The body of the loop over the attendees once availability is known: the
\* attendee goes to one of the two lists and its cache is kept.
AfterAttendee(w, a, i, acc, available) ==
    Only({
    LET caches == [acc.caches EXCEPT ![i] = result.cache]
    IN IF ~result.ok \/ ~result.covers
       THEN [acc EXCEPT !.missingUserIds = Append(@, a.userId), !.caches = caches]
       ELSE [acc EXCEPT !.availableUserIds = Append(@, a.userId),
            !.penalties = Append(@,
                [userId |-> a.userId,
                 penalty |-> penaltyForLocalInterval(result.startMinute,
                                                     result.endMinute),
                 startLocal |-> [wall |-> LocalSeconds(a.timeZone, w[1]),
                                 offset |-> OffsetAt(a.timeZone, w[1])],
                 endLocal |-> [wall |-> LocalSeconds(a.timeZone, w[2]),
                               offset |-> OffsetAt(a.timeZone, w[2])],
                 tz |-> a.timeZone]),
            !.caches = caches]
    : result \in {available}})

\* The loop over the attendees for one window; acc carries the lists and the caches.
RECURSIVE ScanAttendees(_, _, _, _)
ScanAttendees(w, prepared, i, acc) ==
    IF i > Len(prepared) THEN acc
    ELSE Only({ScanAttendees(w, prepared, i + 1, next) :
                  next \in {AfterAttendee(w, prepared[i], i, acc,
                                isUserAvailableForUtcInterval(w[1], w[2], prepared[i],
                                                              acc.caches[i]))}})

RECURSIVE SumPenalty(_)
SumPenalty(penalties) ==
    IF penalties = <<>> THEN 0 ELSE Head(penalties).penalty + SumPenalty(Tail(penalties))

RECURSIVE MaxPenalty(_)
MaxPenalty(penalties) ==
    IF penalties = <<>> THEN 0
    ELSE Max(MaxPenalty(SubSeq(penalties, 1, Len(penalties) - 1)),
             penalties[Len(penalties)].penalty)

\* penalties.slice().sort((a, b) => b.penalty - a.penalty)[0]: the first entry
\* of the largest penalty (the sort is stable); the empty list for undefined.
Worst(penalties) ==
    IF penalties = <<>> THEN <<>>
    ELSE <<penalties[CHOOSE i \in DOMAIN penalties :
                /\ \A j \in DOMAIN penalties : penalties[j].penalty <= penalties[i].penalty
                /\ \A j \in 1..(i - 1) : penalties[j].penalty < penalties[i].penalty]>>

\* Number.toFixed(2) of a score, as hundredths.
toFixed2(score) == (score * 100 + ScoreOne \div 2) \div ScoreOne

\* avgPenalty: the mean of the penalties, 1 for none; as a fraction of ScoreOne.
AvgPenalty(penalties) ==
    IF Len(penalties) # 0
    THEN ((ScoreOne \div 100) * SumPenalty(penalties)) \div Len(penalties)
    ELSE ScoreOne

\* Mutant: fairness from the mean penalty instead of the largest.
MaxPenaltyScore_mean(penalties) ==
    IF Len(penalties) # 0
    THEN ((ScoreOne \div 100) * SumPenalty(penalties)) \div Len(penalties)
    ELSE ScoreOne

MaxPenaltyScore(penalties) ==
    IF Len(penalties) # 0 THEN (ScoreOne \div 100) * MaxPenalty(penalties) ELSE ScoreOne

TotalScore(attendanceScore, inconvenienceScore, fairnessScore) ==
    clamp01((6 * attendanceScore + 2 * inconvenienceScore + 2 * fairnessScore) \div 10)

\* Mutant: windows nobody can attend are kept.
SkipsWindow_never(attendanceRatio) == FALSE

\* if (attendanceRatio <= 0) continue
SkipsWindow(attendanceRatio) == attendanceRatio <= 0

\* The body of the inner loop from the attendance ratio on: the candidate pushed
\* for one window, the empty list when the window is skipped.
BuildCandidate(w, totalAttendees, scan) ==
    LET attendanceRatio ==
            IF totalAttendees = 0 THEN 0
            ELSE (ScoreOne * Len(scan.availableUserIds)) \div totalAttendees
        attendanceScore == clamp01(attendanceRatio)
        inconvenienceScore == clamp01(ScoreOne - AvgPenalty(scan.penalties))
        fairnessScore == clamp01(ScoreOne - MaxPenaltyScore(scan.penalties))
        totalScore == TotalScore(attendanceScore, inconvenienceScore, fairnessScore)
        worst == Worst(scan.penalties)
    IN IF SkipsWindow(attendanceRatio) THEN <<>>
       ELSE <<[startAt |-> w[1], endAt |-> w[2],
               attendanceRatio |-> attendanceRatio,
               score |-> [total |-> totalScore, attendance |-> attendanceScore,
                          inconvenience |-> inconvenienceScore, fairness |-> fairnessScore],
               availableUserIds |-> scan.availableUserIds,
               missingUserIds |-> scan.missingUserIds,
               explanation |->
                   [why |-> <<Len(scan.availableUserIds), totalAttendees,
                              toFixed2(attendanceScore), toFixed2(inconvenienceScore),
                              toFixed2(fairnessScore)>>
                            \o (IF worst # <<>>
                                THEN <<worst[1].startLocal.wall, worst[1].endLocal.wall>>
                                ELSE <<>>),
                    worstLocalTime |->
                        IF worst # <<>>
                        THEN <<[userId |-> worst[1].userId,
                                localStart |-> worst[1].startLocal,
                                localEnd |-> worst[1].endLocal,
                                timeZone |-> worst[1].tz,
                                penalty |-> worst[1].penalty]>>
                        ELSE <<>>]]>>

\* The two loops: every window in turn, the caches carried from window to window.
RECURSIVE ScanWindows(_, _, _, _)
ScanWindows(windows, prepared, candidates, caches) ==
    IF windows = <<>> THEN candidates
    ELSE Only({Only({ScanWindows(Tail(windows), prepared, pushed, scan.caches) :
                         pushed \in {candidates
                                     \o BuildCandidate(Head(windows), Len(prepared), scan)}}) :
                  scan \in {ScanAttendees(Head(windows), prepared, 1,
                                          [availableUserIds |-> <<>>, missingUserIds |-> <<>>,
                                           penalties |-> <<>>, caches |-> caches])}})

\* Mutant: the total score sorts ascending.
CompareCandidates_ascending(a, b) ==
    IF b.score.total # a.score.total THEN a.score.total - b.score.total
    ELSE IF b.score.attendance # a.score.attendance
         THEN b.score.attendance - a.score.attendance
    ELSE IF b.score.fairness # a.score.fairness THEN b.score.fairness - a.score.fairness
    ELSE a.startAt - b.startAt

\* Mutant: no tie-break on startAt.
CompareCandidates_noTieBreak(a, b) ==
    IF b.score.total # a.score.total THEN b.score.total - a.score.total
    ELSE IF b.score.attendance # a.score.attendance
         THEN b.score.attendance - a.score.attendance
    ELSE b.score.fairness - a.score.fairness

\* The comparator of the final sort: negative when a sorts before b.
CompareCandidates(a, b) ==
    IF b.score.total # a.score.total THEN b.score.total - a.score.total
    ELSE IF b.score.attendance # a.score.attendance
         THEN b.score.attendance - a.score.attendance
    ELSE IF b.score.fairness # a.score.fairness THEN b.score.fairness - a.score.fairness
    ELSE a.startAt - b.startAt

\* Array.prototype.sort: every arrangement of the candidates the comparator allows.
RECURSIVE SortedOrders(_, _)
SortedOrders(c, S) ==
    IF S = {} THEN {<<>>}
    ELSE UNION {{<<c[i]>> \o t : t \in SortedOrders(c, S \ {i})} :
                i \in {i \in S : \A j \in S : CompareCandidates(c[i], c[j]) <= 0}}

\* Mutant: the last n elements instead of the first.
SliceTo_tail(s, n) == SubSeq(s, Len(s) - Min(Len(s), Max(0, n)) + 1, Len(s))

\* Array.prototype.slice(0, n)
SliceTo(s, n) ==
    IF n >= 0 THEN SubSeq(s, 1, Min(Len(s), n)) ELSE SubSeq(s, 1, Max(0, Len(s) + n))

WithRank(s) ==
    [i \in DOMAIN s |->
        [rank |-> i, startAt |-> s[i].startAt, endAt |-> s[i].endAt,
         attendanceRatio |-> s[i].attendanceRatio, score |-> s[i].score,
         availableUserIds |-> s[i].availableUserIds,
         missingUserIds |-> s[i].missingUserIds, explanation |-> s[i].explanation]]

\* The candidates pushed by the loops, before the sort.
Unranked(inp) ==
    Only({ScanWindows(windows, prepared, <<>>, [i \in DOMAIN prepared |-> <<>>]) :
             prepared \in {[i \in DOMAIN inp.attendees |->
                               prepareAttendee(inp.attendees[i])]},
             windows \in {Windows(inp, inp.rangeStart)}})

\* generateSuggestions: the lists the call can return (one, unless the comparator
\* leaves two candidates unordered). maxCandidates is a list, empty when omitted.
generateSuggestions(inp) ==
    LET maxCandidates ==
            IF inp.maxCandidates = <<>> THEN DefaultMaxCandidates ELSE inp.maxCandidates[1]
    IN UNION {{WithRank(SliceTo(sorted, maxCandidates)) :
                  sorted \in SortedOrders(candidates, DOMAIN candidates)} :
              candidates \in {Unranked(inp)}}

\* ----------------------------------------------------- the engine's inputs

At(day, hour, minute, second) ==
    day * SecondsPerDay + hour * 3600 + minute * SecondsPerMinute + second

Zones == {"America/New_York", "America/Los_Angeles", "UTC"}

\* Weekly windows of days 0 and 1 (Saturday = 6, Sunday = 7).
Window(d, s, e) == [dayOfWeek |-> d, startMinute |-> s, endMinute |-> e]

OfficeHours == <<Window(6, 540, 1020), Window(7, 540, 1020)>>
EarlyHours == <<Window(6, 480, 600), Window(6, 360, 480), Window(7, 390, 450)>>
Afternoon == <<Window(6, 840, 960), Window(7, 810, 930)>>
AllDay == <<Window(6, 0, 1440), Window(7, -30, 1500)>>

BaseProfiles ==
    {[timeZone |-> "America/New_York", windows |-> OfficeHours],
     [timeZone |-> "America/New_York", windows |-> EarlyHours],
     [timeZone |-> "America/New_York", windows |-> <<>>],
     [timeZone |-> "America/Los_Angeles", windows |-> OfficeHours],
     [timeZone |-> "America/Los_Angeles", windows |-> EarlyHours],
     [timeZone |-> "UTC", windows |-> Afternoon],
     [timeZone |-> "UTC", windows |-> AllDay]}

Override(s, e, k) == [startAt |-> s, endAt |-> e, kind |-> k]

OverridePool ==
    {Override(At(0, 15, 0, 0), At(0, 16, 0, 0), "UNAVAILABLE"),
     Override(At(0, 14, 45, 30), At(0, 14, 50, 10), "UNAVAILABLE"),
     Override(At(0, 23, 0, 0), At(1, 14, 30, 0), "UNAVAILABLE"),
     Override(At(0, 11, 0, 0), At(1, 16, 0, 0), "AVAILABLE")}

\* The lists of at most n distinct elements of S.
ListsUpTo(S, n) ==
    UNION {{l \in [1..k -> S] : \A i, j \in 1..k : i # j => l[i] # l[j]} : k \in 0..n}

\* The override lists of the first attendee: every short list, and the two
\* orders of an addition that an UNAVAILABLE override cuts.
OverrideLists ==
    ListsUpTo(OverridePool, MaxOverrides)
    \cup {<<Override(At(0, 11, 0, 0), At(1, 16, 0, 0), "AVAILABLE"),
            Override(At(0, 15, 0, 0), At(0, 16, 0, 0), "UNAVAILABLE")>>,
          <<Override(At(0, 15, 0, 0), At(0, 16, 0, 0), "UNAVAILABLE"),
            Override(At(0, 11, 0, 0), At(1, 16, 0, 0), "AVAILABLE")>>}

FirstAttendees ==
    {[userId |-> 1, timeZone |-> p.timeZone, windows |-> p.windows, overrides |-> o] :
        p \in BaseProfiles, o \in OverrideLists}

\* The further attendees.
OtherAttendees(id) ==
    {[userId |-> id, timeZone |-> "America/Los_Angeles", windows |-> EarlyHours,
      overrides |-> <<>>],
     [userId |-> id, timeZone |-> "America/Los_Angeles", windows |-> OfficeHours,
      overrides |-> <<>>],
     [userId |-> id, timeZone |-> "America/New_York", windows |-> OfficeHours,
      overrides |-> <<Override(At(0, 15, 0, 0), At(0, 16, 0, 0), "UNAVAILABLE")>>]}

RECURSIVE AttendeeLists(_)
AttendeeLists(n) ==
    IF n = 0 THEN {<<>>}
    ELSE IF n = 1 THEN {<<a>> : a \in FirstAttendees}
    ELSE {Append(l, a) : l \in AttendeeLists(n - 1), a \in OtherAttendees(n)}

Requests ==
    {[timeZone |-> z, rangeStart |-> r[1], rangeEnd |-> r[2],
      durationMinutes |-> ds[1], stepMinutes |-> ds[2],
      dayStartMinute |-> b[1], dayEndMinute |-> b[2]] :
        z \in {"America/New_York", "UTC"},
        r \in {<<0, 0>>, <<0, 1>>},
        ds \in {<<30, 30>>, <<60, 30>>},
        b \in {<<540, 630>>, <<390, 480>>}}

MaxCandidatesChoices == {<<>>, <<0>>, <<2>>}

WithAttendees(r, attendees, maxCandidates) ==
    [timeZone |-> r.timeZone, rangeStart |-> r.rangeStart, rangeEnd |-> r.rangeEnd,
     durationMinutes |-> r.durationMinutes, stepMinutes |-> r.stepMinutes,
     dayStartMinute |-> r.dayStartMinute, dayEndMinute |-> r.dayEndMinute,
     attendees |-> attendees, maxCandidates |-> maxCandidates]

\* ------------------------------------------------ the server: stored data

\* The members of the organisation; user 1 has an ACTIVE GOOGLE calendar
\* connection with selected calendars, user 2 has none.
Users == {1, 2}
ConnectedUsers == {1}

\* The clock starts on the Monday (day 2) of the week before the requested
\* Friday (day 13). Every write stamps the row with `now` and the next write
\* happens later; waiting lets cache entries expire.
StartNow == At(2, 9, 0, 0)
MaxWrites == 2
MaxWaits == 1
SUGGESTION_CACHE_TTL_SECONDS == 240
WaitSeconds == 2 * SUGGESTION_CACHE_TTL_SECONDS
Writes == (now - StartNow) % WaitSeconds
Waits == (now - StartNow) \div WaitSeconds

\* orderBy: { <field>: "asc" } of a findMany: the rows as a list.
RECURSIVE OrderBy(_, _)
OrderBy(rows, field) ==
    IF rows = {} THEN <<>>
    ELSE LET first == CHOOSE x \in rows : \A y \in rows : x[field] <= y[field]
         IN <<first>> \o OrderBy(rows \ {first}, field)

\* Date.toISOString() ?? "none" of a map entry: the list of the value, empty for none.
MaxOf(S) == IF S = {} THEN <<>> ELSE <<CHOOSE x \in S : \A y \in S : y <= x>>

\* state.ts buildAvailabilityVersionMap, read for one user.
AvailabilityVersion(userId, loadedTemplates, loadedOverrides) ==
    MaxOf({t.updatedAt : t \in {t \in loadedTemplates : t.userId = userId}}
          \cup {o.updatedAt : o \in {o \in loadedOverrides : o.userId = userId}})

\* state.ts buildBusyVersionMap, read for one user.
BusyVersion(userId, blocks) ==
    MaxOf({b.createdAt : b \in {b \in blocks : b.userId = userId}})

\* state.ts computeDataFingerprint: the hashed text, one segment per attendee
\* in the order given (SHA-256 is taken as injective).
computeDataFingerprint(attendeeUserIds, loadedTemplates, loadedOverrides, blocks) ==
    [i \in DOMAIN attendeeUserIds |->
        <<attendeeUserIds[i],
          AvailabilityVersion(attendeeUserIds[i], loadedTemplates, loadedOverrides),
          BusyVersion(attendeeUserIds[i], blocks)>>]

\* demo-busy.ts
WEEK_SPREAD == 2
MAX_SHIFT_MINUTES == 40
EARLIEST_MINUTE == 6 * 60
LATEST_MINUTE == 21 * 60
BASE_PATTERNS ==
    <<[dayOffset |-> 0, baseStartMinute |-> 9 * 60, durationMinutes |-> 90],
      [dayOffset |-> 1, baseStartMinute |-> 11 * 60 + 15, durationMinutes |-> 60],
      [dayOffset |-> 2, baseStartMinute |-> 14 * 60, durationMinutes |-> 75],
      [dayOffset |-> 3, baseStartMinute |-> 8 * 60 + 30, durationMinutes |-> 120],
      [dayOffset |-> 4, baseStartMinute |-> 13 * 60 + 30, durationMinutes |-> 60]>>

clampStartMinute(base, duration) ==
    Min(Max(base, EARLIEST_MINUTE), Max(EARLIEST_MINUTE, LATEST_MINUTE - duration))

\* shiftMinutes: the first 16 bits of a SHA-256 digest of user, week and day,
\* here a fixed mixing of the three in place of the digest.
shiftMinutes(userId, weekKey, dayOffset) ==
    ((userId * 31 + weekKey * 17 + dayOffset * 7) % (MAX_SHIFT_MINUTES * 2 + 1))
    - MAX_SHIFT_MINUTES

\* mondayOf(DateTime.utc()): the UTC day number of the Monday of the week of t.
mondayOf(t) == (t \div SecondsPerDay) - (Weekday(t \div SecondsPerDay) - 1)

generateDemoBusyBlocks(userId, rangeStart, rangeEnd, t) ==
    {b \in {LET weekStart == mondayOf(t) + 7 * weekOffset
                pattern == BASE_PATTERNS[p]
                adjustedStart ==
                    clampStartMinute(
                        pattern.baseStartMinute
                        + shiftMinutes(userId, weekStart, pattern.dayOffset),
                        pattern.durationMinutes)
                dayStart == (weekStart + pattern.dayOffset) * SecondsPerDay
                            + adjustedStart * SecondsPerMinute
            IN [userId |-> userId, startUtc |-> dayStart,
                endUtc |-> dayStart + pattern.durationMinutes * SecondsPerMinute,
                createdAt |-> dayStart] :
                weekOffset \in 0..(WEEK_SPREAD - 1), p \in DOMAIN BASE_PATTERNS} :
        ~(b.endUtc <= rangeStart \/ b.startUtc >= rangeEnd)}

\* state.ts buildDemoFallbackBlocks
buildDemoFallbackBlocks(attendeeUserIds, rangeStart, rangeEnd, existingBusyBlocks, t) ==
    UNION {IF userId \in ConnectedUsers
              \/ userId \in {b.userId : b \in existingBusyBlocks}
           THEN {}
           ELSE generateDemoBusyBlocks(userId, rangeStart, rangeEnd, t) :
           userId \in Range(attendeeUserIds)}

\* state.ts loadSuggestionAvailabilityState, called at time t.
loadSuggestionAvailabilityState(attendeeUserIds, rangeStart, rangeEnd, t) ==
    LET ids == Range(attendeeUserIds)
        loadedTemplates == {r \in templates : r.userId \in ids}
        loadedOverrides ==
            {o \in availabilityOverrides : o.userId \in ids /\ o.startAt < rangeEnd /\ o.endAt > rangeStart}
        loadedBusy ==
            {[userId |-> b.userId, startUtc |-> b.startUtc, endUtc |-> b.endUtc,
              createdAt |-> b.createdAt] :
                b \in {b \in busyBlocks :
                        b.userId \in ids /\ b.startUtc < rangeEnd /\ b.endUtc > rangeStart}}
        allBusyBlocks ==
            loadedBusy \cup buildDemoFallbackBlocks(attendeeUserIds, rangeStart, rangeEnd,
                                                    loadedBusy, t)
    IN [templates |-> loadedTemplates,
        overrides |-> OrderBy(loadedOverrides, "startAt"),
        busyBlocks |-> OrderBy(allBusyBlocks, "startUtc"),
        dataFingerprint |->
            computeDataFingerprint(attendeeUserIds, loadedTemplates, loadedOverrides,
                                   allBusyBlocks)]

\* ------------------------------------- POST /suggestions/requests (route.ts)

parseHHMM(hhmm) == hhmm[1] * 60 + hhmm[2]

\* [...new Set(ids)].sort()
RECURSIVE Ascending(_)
Ascending(S) ==
    IF S = {} THEN <<>>
    ELSE LET least == CHOOSE x \in S : \A y \in S : x <= y
         IN <<least>> \o Ascending(S \ {least})

ensureSortedUnique(ids) == Ascending(Range(ids))

\* [...ids].sort(): the ids in ascending order, repeated ids kept.
RECURSIVE SortIds(_)
SortIds(ids) ==
    IF ids = <<>> THEN <<>>
    ELSE LET i == CHOOSE i \in DOMAIN ids : \A j \in DOMAIN ids : ids[i] <= ids[j]
         IN <<ids[i]>> \o SortIds(SubSeq(ids, 1, i - 1) \o SubSeq(ids, i + 1, Len(ids)))

\* Mutant: the ids are hashed in the caller's order.
computeRequestKey_unsorted(inp) ==
    <<inp.timeZone, inp.rangeStart, inp.rangeEnd, inp.durationMinutes, inp.stepMinutes,
      inp.dayStartMinute, inp.dayEndMinute, inp.attendeeUserIds>>

\* engine.ts computeRequestKey: the hashed JSON text of the fields in the
\* caller's property order with the sorted ids (SHA-256 taken as injective).
computeRequestKey(inp) ==
    <<inp.timeZone, inp.rangeStart, inp.rangeEnd, inp.durationMinutes, inp.stepMinutes,
      inp.dayStartMinute, inp.dayEndMinute, SortIds(inp.attendeeUserIds)>>

\* Mutant: the busy blocks are not handed to the engine.
EngineAttendees_busyIgnored(attendeeUserIds, bodyTimeZone, state) ==
    [i \in DOMAIN attendeeUserIds |->
        LET userId == attendeeUserIds[i]
            template == {r \in state.templates : r.userId = userId}
            own == SelectSeq(state.overrides, LAMBDA o : o.userId = userId)
        IN [userId |-> userId,
            timeZone |-> IF template = {} THEN bodyTimeZone
                         ELSE (CHOOSE r \in template : TRUE).timeZone,
            windows |-> IF template = {} THEN <<>>
                        ELSE (CHOOSE r \in template : TRUE).windows,
            overrides |->
                [k \in DOMAIN own |-> Override(own[k].startAt, own[k].endAt, own[k].kind)]]]

\* The attendees handed to the engine: template, overrides, then busy blocks
\* as UNAVAILABLE overrides.
EngineAttendees(attendeeUserIds, bodyTimeZone, state) ==
    [i \in DOMAIN attendeeUserIds |->
        LET userId == attendeeUserIds[i]
            template == {r \in state.templates : r.userId = userId}
            own == SelectSeq(state.overrides, LAMBDA o : o.userId = userId)
            busy == SelectSeq(state.busyBlocks, LAMBDA b : b.userId = userId)
        IN [userId |-> userId,
            timeZone |-> IF template = {} THEN bodyTimeZone
                         ELSE (CHOOSE r \in template : TRUE).timeZone,
            windows |-> IF template = {} THEN <<>>
                        ELSE (CHOOSE r \in template : TRUE).windows,
            overrides |->
                [k \in DOMAIN own |-> Override(own[k].startAt, own[k].endAt, own[k].kind)]
                \o [k \in DOMAIN busy |->
                        Override(busy[k].startUtc, busy[k].endUtc, "UNAVAILABLE")]]]

\* The engine input of the handler for a request body and loaded state.
EngineInput(body, attendeeUserIds, state) ==
    WithAttendees(
        [timeZone |-> body.timeZone, rangeStart |-> body.rangeStart,
         rangeEnd |-> body.rangeEnd, durationMinutes |-> body.durationMinutes,
         stepMinutes |-> body.stepMinutes, dayStartMinute |-> parseHHMM(body.dayStart),
         dayEndMinute |-> parseHHMM(body.dayEnd)],
        EngineAttendees(attendeeUserIds, body.timeZone, state),
        <<DefaultMaxCandidates>>)

\* startOf("day").toUTC() and endOf("day").toUTC(), to the second.
RangeStartUtc(body) == StartOfDay(body.timeZone, body.rangeStart)
RangeEndUtc(body) == StartOfDay(body.timeZone, body.rangeEnd + 1) - 1

\* redisClient.get(cacheKey): the live entry, as a list.
RedisGet(cacheKey, t) ==
    OrderBy({e \in redis : e.key = cacheKey /\ e.expiresAt > t}, "expiresAt")

\* The request row written by the handler: on reuse only the payload is
\* updated; otherwise candidates and attendees are replaced (or the row created).
StoredRequest(existing, requestKey, body, attendeeUserIds, dataFingerprint, generated, shouldUseCache) ==
    [id |-> IF existing = {} THEN Cardinality(requests) + 1
            ELSE (CHOOSE r \in existing : TRUE).id,
     requestKey |-> requestKey,
     timeZone |-> body.timeZone,
     rangeStart |-> RangeStartUtc(body),
     rangeEnd |-> RangeEndUtc(body),
     dataFingerprint |-> <<dataFingerprint>>,
     attendees |-> IF shouldUseCache THEN (CHOOSE r \in existing : TRUE).attendees
                   ELSE attendeeUserIds,
     candidates |-> IF shouldUseCache THEN (CHOOSE r \in existing : TRUE).candidates
                    ELSE generated]

\* Boolean(cacheEntry && existing && cacheEntry.requestId === existing.id)
ShouldUseCache(cacheEntry, existing) ==
    /\ cacheEntry # <<>>
    /\ existing # {}
    /\ cacheEntry[1].requestId = (CHOOSE r \in existing : TRUE).id

\* POST /suggestions/requests, Redis reachable or not.
PostSuggestions(body, redisUp) ==
    \E attendeeUserIds \in {ensureSortedUnique(body.attendeeUserIds)} :
    \E state \in {loadSuggestionAvailabilityState(attendeeUserIds, RangeStartUtc(body),
                                                  RangeEndUtc(body), now)} :
    \E requestKey \in {computeRequestKey(
                        [timeZone |-> body.timeZone, rangeStart |-> body.rangeStart,
                         rangeEnd |-> body.rangeEnd,
                         durationMinutes |-> body.durationMinutes,
                         stepMinutes |-> body.stepMinutes,
                         dayStartMinute |-> parseHHMM(body.dayStart),
                         dayEndMinute |-> parseHHMM(body.dayEnd),
                         attendeeUserIds |-> attendeeUserIds])} :
    \E existing \in {{r \in requests : r.requestKey = requestKey}} :
    \E shouldUseCache \in
        {ShouldUseCache(IF redisUp
                        THEN RedisGet(<<requestKey, state.dataFingerprint>>, now)
                        ELSE <<>>,
                        existing)} :
        IF parseHHMM(body.dayStart) >= parseHHMM(body.dayEnd)
           \/ RangeStartUtc(body) > RangeEndUtc(body)
        THEN /\ response' = [route |-> "suggestions.requests", status |-> 400]
             /\ UNCHANGED <<now, templates, availabilityOverrides, busyBlocks, requests, redis, events,
                            idempotencyKeys>>
        ELSE \E generated \in
                    (IF shouldUseCache THEN {<<>>}
                     ELSE generateSuggestions(EngineInput(body, attendeeUserIds, state))) :
             \E row \in {StoredRequest(existing, requestKey, body, attendeeUserIds,
                                       state.dataFingerprint, generated, shouldUseCache)} :
                /\ requests' = (requests \ existing) \cup {row}
                /\ redis' =
                    IF redisUp
                    THEN {e \in redis : e.key # <<requestKey, state.dataFingerprint>>}
                         \cup {[key |-> <<requestKey, state.dataFingerprint>>,
                                requestId |-> row.id,
                                expiresAt |-> now + SUGGESTION_CACHE_TTL_SECONDS]}
                    ELSE redis
                /\ response' = [route |-> "suggestions.requests", status |-> 200,
                                usedCache |-> shouldUseCache, requestId |-> row.id,
                                candidates |-> row.candidates]
                /\ UNCHANGED <<now, templates, availabilityOverrides, busyBlocks, events,
                               idempotencyKeys>>

\* ------------------------------ POST .../requests/{requestId}/confirm

\* String.prototype.trim of a header value, a list of characters.
RECURSIVE Trim(_)
Trim(value) ==
    IF value = <<>> THEN <<>>
    ELSE IF Head(value) = " " THEN Trim(Tail(value))
    ELSE IF value[Len(value)] = " " THEN Trim(SubSeq(value, 1, Len(value) - 1))
    ELSE value

\* idempotency.ts normalizeKey: key is the Idempotency-Key header as a list,
\* empty when the header is missing; the result is the trimmed value as a
\* list, empty (null) when the header is missing or blank.
normalizeKey(key) ==
    IF key = <<>> \/ Trim(key[1]) = <<>> THEN <<>> ELSE <<Trim(key[1])>>

\* Mutant: the stored request hash is not compared.
getIdempotencyResponse_hashIgnored(key, requestHash) ==
    LET normalizedKey == normalizeKey(key)
        entry == {e \in idempotencyKeys : <<e.key>> = normalizedKey}
    IN IF normalizedKey = <<>> \/ entry = {} THEN [type |-> "none"]
       ELSE IF (CHOOSE e \in entry : TRUE).responseStatus # <<>>
            THEN [type |-> "response",
                  response |-> (CHOOSE e \in entry : TRUE).responseBody]
       ELSE [type |-> "incomplete"]

\* idempotency.ts getIdempotencyResponse
getIdempotencyResponse(key, requestHash) ==
    LET normalizedKey == normalizeKey(key)
        entry == {e \in idempotencyKeys : <<e.key>> = normalizedKey}
    IN IF normalizedKey = <<>> THEN [type |-> "none"]
       ELSE IF entry = {} THEN [type |-> "none"]
       ELSE IF (CHOOSE e \in entry : TRUE).requestHash # requestHash
            THEN [type |-> "conflict"]
       ELSE IF (CHOOSE e \in entry : TRUE).responseStatus # <<>>
            THEN [type |-> "response",
                  response |-> (CHOOSE e \in entry : TRUE).responseBody]
       ELSE [type |-> "incomplete"]

\* idempotency.ts saveIdempotencyResponse: create, a duplicate key is ignored.
saveIdempotencyResponse(key, requestHash, responseBody) ==
    LET normalizedKey == normalizeKey(key)
    IN IF normalizedKey = <<>> \/ \E e \in idempotencyKeys : <<e.key>> = normalizedKey
       THEN idempotencyKeys
       ELSE idempotencyKeys \cup {[key |-> normalizedKey[1], requestHash |-> requestHash,
                                   responseStatus |-> <<200>>,
                                   responseBody |-> responseBody]}

\* confirm/route.ts intervalsOverlap
intervalsOverlap(aStart, aEnd, bStart, bEnd) == bStart < aEnd /\ bEnd > aStart

\* Mutant: touching endpoints count as an overlap.
conflictsIntervalsOverlap_closed(aStart, aEnd, bStart, bEnd) == aStart <= bEnd /\ aEnd >= bStart

\* conflicts.ts intervalsOverlap
conflictsIntervalsOverlap(aStart, aEnd, bStart, bEnd) == aStart < bEnd /\ aEnd > bStart

\* Mutant: every owner of an interval is reported.
findConflictingUserIds_all(intervalStart, intervalEnd, intervals) ==
    Ascending({intervals[i].userId : i \in DOMAIN intervals})

\* conflicts.ts findConflictingUserIds
findConflictingUserIds(intervalStart, intervalEnd, intervals) ==
    Ascending({intervals[i].userId : i \in
                {i \in DOMAIN intervals :
                    conflictsIntervalsOverlap(intervalStart, intervalEnd,
                                              intervals[i].start, intervals[i].end)}})

\* The users whose busy blocks or UNAVAILABLE overrides overlap the slot.
ConflictUserIds(startUtc, endUtc, state) ==
    LET busyConflicts ==
            SelectSeq(state.busyBlocks,
                      LAMBDA b : intervalsOverlap(startUtc, endUtc, b.startUtc, b.endUtc))
        overrideConflicts ==
            SelectSeq(state.overrides,
                      LAMBDA o : o.kind = "UNAVAILABLE"
                                 /\ intervalsOverlap(startUtc, endUtc, o.startAt, o.endAt))
    IN findConflictingUserIds(startUtc, endUtc,
            [k \in DOMAIN busyConflicts |->
                [userId |-> busyConflicts[k].userId, start |-> busyConflicts[k].startUtc,
                 end |-> busyConflicts[k].endUtc]]
            \o [k \in DOMAIN overrideConflicts |->
                [userId |-> overrideConflicts[k].userId,
                 start |-> overrideConflicts[k].startAt,
                 end |-> overrideConflicts[k].endAt]])

\* Mutant: the recorded fingerprint is never compared.
FingerprintMismatch_ignored(recorded, current) == FALSE

\* requestRow.dataFingerprint && requestRow.dataFingerprint !== current
FingerprintMismatch(recorded, current) == recorded # <<>> /\ recorded[1] # current

ConfirmResponse(status, code, event) ==
    [route |-> "suggestions.confirm", status |-> status, code |-> code, event |-> event]

\* requestRow.attendees as the include returns them: the query has no orderBy,
\* so the rows of the request come in any order.
StorageOrders(requestId) ==
    IF \A r \in requests : r.id # requestId THEN {<<>>}
    ELSE UNION {{order \in [DOMAIN r.attendees -> Range(r.attendees)] :
                    Range(order) = Range(r.attendees)} :
                r \in {r \in requests : r.id = requestId}}

\* The answer of the handler to a confirmation that is not replayed, the
\* attendee rows having come in the order attendeeUserIds: the response and
\* the ScheduledEvent rows after it.
ConfirmOutcome(requestId, body, attendeeUserIds) ==
    LET rows == {r \in requests : r.id = requestId}
        requestRow == CHOOSE r \in rows : TRUE
        candidates == SelectSeq(requestRow.candidates,
                                LAMBDA c : c.rank = body.candidateRank)
        candidate == candidates[1]
        state == loadSuggestionAvailabilityState(attendeeUserIds, requestRow.rangeStart,
                                                 requestRow.rangeEnd, now)
        conflictUserIds == ConflictUserIds(candidate.startAt, candidate.endAt, state)
        existing == {e \in events : e.sourceRequestId = requestId
                                    /\ e.sourceCandidateRank = body.candidateRank}
        created == [id |-> Cardinality(events) + 1, startUtc |-> candidate.startAt,
                    endUtc |-> candidate.endAt, sourceRequestId |-> requestId,
                    sourceCandidateRank |-> body.candidateRank,
                    attendees |-> requestRow.attendees]
        event == IF existing # {} THEN CHOOSE e \in existing : TRUE ELSE created
    IN IF rows = {}
       THEN [response |-> ConfirmResponse(404, "not_found", <<>>), events |-> events]
       ELSE IF candidates = <<>>
       THEN [response |-> ConfirmResponse(400, "bad_candidate_rank", <<>>),
             events |-> events]
       ELSE IF FingerprintMismatch(requestRow.dataFingerprint, state.dataFingerprint)
       THEN [response |-> ConfirmResponse(409, "conflict_detected", <<>>),
             events |-> events]
       ELSE IF body.conflictCheck /\ Len(requestRow.attendees) # 0
               /\ Len(conflictUserIds) # 0
       THEN [response |-> ConfirmResponse(409, "conflict", <<>>), events |-> events]
       ELSE [response |-> ConfirmResponse(200, "ok", <<event>>),
             events |-> events \cup {event}]

\* POST confirm with an Idempotency-Key header (key) or without (empty list).
Confirm(requestId, body, key) ==
    \E idempotencyResponse \in
        {getIdempotencyResponse(key, <<requestId, body>>)} :
        IF idempotencyResponse.type = "response"
        THEN /\ response' = idempotencyResponse.response
             /\ UNCHANGED <<now, templates, availabilityOverrides, busyBlocks, requests, redis, events,
                            idempotencyKeys>>
        ELSE IF idempotencyResponse.type = "conflict"
        THEN /\ response' = ConfirmResponse(409, "idempotency_conflict", <<>>)
             /\ UNCHANGED <<now, templates, availabilityOverrides, busyBlocks, requests, redis, events,
                            idempotencyKeys>>
        ELSE IF idempotencyResponse.type = "incomplete"
        THEN /\ response' = ConfirmResponse(429, "idempotency_in_progress", <<>>)
             /\ UNCHANGED <<now, templates, availabilityOverrides, busyBlocks, requests, redis, events,
                            idempotencyKeys>>
        ELSE \E outcome \in {ConfirmOutcome(requestId, body, order) :
                                order \in StorageOrders(requestId)} :
                /\ response' = outcome.response
                /\ events' = outcome.events
                /\ idempotencyKeys' =
                    IF outcome.response.status = 200
                    THEN saveIdempotencyResponse(key, <<requestId, body>>, outcome.response)
                    ELSE idempotencyKeys
                /\ UNCHANGED <<now, templates, availabilityOverrides, busyBlocks, requests, redis>>

\* ------------------------------------------------------ the data writers

DefaultMinSize == 15

\* PUT /availability/me/template: the windows grouped by day in order of first
\* appearance, each day's intervals normalized.
RECURSIVE NormalizedWindows(_, _)
NormalizedWindows(windows, seen) ==
    IF windows = <<>> THEN <<>>
    ELSE LET dayOfWeek == Head(windows).dayOfWeek
             ofDay == SelectSeq(windows, LAMBDA w : w.dayOfWeek = dayOfWeek)
             intervals == normalizeIntervals(
                            [k \in DOMAIN ofDay |->
                                [start |-> ofDay[k].startMinute, end |-> ofDay[k].endMinute]],
                            DefaultMinSize)
         IN IF dayOfWeek \in seen THEN NormalizedWindows(Tail(windows), seen)
            ELSE [k \in DOMAIN intervals |->
                    Window(dayOfWeek, intervals[k].start, intervals[k].end)]
                 \o NormalizedWindows(Tail(windows), seen \cup {dayOfWeek})

\* PUT /availability/me/template by userId: upsert; updatedAt is the time of the write.
PutTemplate(userId, timeZone, windows) ==
    /\ Writes < MaxWrites
    /\ templates' = {r \in templates : r.userId # userId}
                    \cup {[userId |-> userId, timeZone |-> timeZone,
                           windows |-> NormalizedWindows(windows, {}),
                           updatedAt |-> now]}
    /\ now' = now + 1
    /\ response' = [route |-> "availability.template", status |-> 200]
    /\ UNCHANGED <<availabilityOverrides, busyBlocks, requests, redis, events, idempotencyKeys>>

\* POST /availability/me/overrides by userId.
CreateOverride(userId, startAt, endAt, kind) ==
    /\ Writes < MaxWrites
    /\ IF startAt < endAt
       THEN /\ availabilityOverrides' = availabilityOverrides \cup {[id |-> now, userId |-> userId,
                                             startAt |-> startAt, endAt |-> endAt,
                                             kind |-> kind, updatedAt |-> now]}
            /\ response' = [route |-> "availability.overrides", status |-> 200]
            /\ now' = now + 1
       ELSE /\ availabilityOverrides' = availabilityOverrides
            /\ response' = [route |-> "availability.overrides", status |-> 400]
            /\ now' = now
    /\ UNCHANGED <<templates, busyBlocks, requests, redis, events, idempotencyKeys>>

\* DELETE /availability/me/overrides/{overrideId} by userId.
DeleteOverride(userId, overrideId) ==
    /\ IF \E o \in availabilityOverrides : o.id = overrideId /\ o.userId = userId
       THEN /\ availabilityOverrides' = {o \in availabilityOverrides : o.id # overrideId}
            /\ response' = [route |-> "availability.overrides.delete", status |-> 200]
       ELSE /\ availabilityOverrides' = availabilityOverrides
            /\ response' = [route |-> "availability.overrides.delete", status |-> 404]
    /\ UNCHANGED <<now, templates, busyBlocks, requests, redis, events, idempotencyKeys>>

\* calendar.ts mergeUtcIntervals
RECURSIVE MergeUtc(_, _)
MergeUtc(merged, rest) ==
    IF rest = <<>> THEN merged
    ELSE IF merged # <<>> /\ Head(rest).start <= merged[Len(merged)].end
    THEN MergeUtc([merged EXCEPT ![Len(merged)].end = Max(@, Head(rest).end)], Tail(rest))
    ELSE MergeUtc(Append(merged, Head(rest)), Tail(rest))

mergeUtcIntervals(intervals) ==
    MergeUtc(<<>>, SortByStart(SelectSeq(intervals, LAMBDA i : i.start < i.end)))

\* POST /integrations/google/sync by userId over [rangeStart, rangeEnd], no
\* Idempotency-Key; busy is what Google reports for the selected calendars.
SyncBusy(userId, rangeStart, rangeEnd, busy) ==
    /\ Writes < MaxWrites
    /\ IF userId \notin ConnectedUsers
       THEN /\ busyBlocks' = busyBlocks
            /\ response' = [route |-> "integrations.google.sync", status |-> 400]
            /\ now' = now
       ELSE \E merged \in {mergeUtcIntervals(busy)} :
            /\ busyBlocks' =
                {b \in busyBlocks :
                    ~(b.userId = userId /\ b.startUtc < rangeEnd /\ b.endUtc > rangeStart)}
                \cup {[userId |-> userId, startUtc |-> merged[k].start,
                       endUtc |-> merged[k].end, createdAt |-> now] : k \in DOMAIN merged}
            /\ response' = [route |-> "integrations.google.sync", status |-> 200]
            /\ now' = now + 1
    /\ UNCHANGED <<templates, availabilityOverrides, requests, redis, events, idempotencyKeys>>

\* Time goes by without a request until the cached entries have expired and
\* Redis has dropped them (with none cached, waiting changes nothing read).
TimePasses ==
    /\ Waits < MaxWaits
    /\ redis # {}
    /\ now' = now + WaitSeconds
    /\ redis' = {e \in redis : e.expiresAt > now'}
    /\ UNCHANGED <<templates, availabilityOverrides, busyBlocks, requests, events, idempotencyKeys,
                   response>>

\* ------------------------------------------------- the server's requests

FridayAfternoon == <<Window(5, 780, 960)>>
LateFriday == <<Window(5, 840, 960), Window(5, 825, 835)>>
TemplateChoices == {LateFriday}

OverrideChoices ==
    {Override(At(13, 15, 0, 0), At(13, 16, 0, 0), "UNAVAILABLE"),
     Override(At(13, 13, 0, 0), At(13, 14, 0, 0), "AVAILABLE")}

BusyChoices == {<<>>, <<[start |-> At(13, 15, 0, 0), end |-> At(13, 16, 0, 0)]>>}

SuggestionBody ==
    [timeZone |-> "UTC", rangeStart |-> 13, rangeEnd |-> 13, durationMinutes |-> 60,
     stepMinutes |-> 60, dayStart |-> <<13, 0>>, dayEnd |-> <<16, 0>>,
     attendeeUserIds |-> <<2, 1>>]

\* The confirmations tried: body and Idempotency-Key header (missing, a key,
\* the same key between spaces, blank).
Confirmations ==
    {[body |-> [candidateRank |-> 1, conflictCheck |-> TRUE], key |-> <<>>],
     [body |-> [candidateRank |-> 1, conflictCheck |-> TRUE], key |-> <<<<"k", "1">>>>],
     [body |-> [candidateRank |-> 2, conflictCheck |-> FALSE],
      key |-> <<<<" ", "k", "1", " ">>>>],
     [body |-> [candidateRank |-> 3, conflictCheck |-> TRUE], key |-> <<<<" ", " ">>>>]}

\* ------------------------------------------------- the engine, called twice

\* The server's data while only the engine is exercised.
ServerIdle ==
    /\ now = StartNow
    /\ templates = {}
    /\ availabilityOverrides = {}
    /\ busyBlocks = {}
    /\ requests = {}
    /\ redis = {}
    /\ events = {}
    /\ idempotencyKeys = {}
    /\ response = [route |-> "none", status |-> 0]

Init ==
    /\ input \in {WithAttendees(r, l, <<>>) :
                    r \in Requests,
                    l \in UNION {AttendeeLists(n) : n \in 0..MaxAttendees}}
    /\ out = <<>>
    /\ out2 = <<>>
    /\ pc = "ready"
    /\ ServerIdle

\* The first call, with the caller's maxCandidates.
Generate(maxCandidates) ==
    /\ pc = "ready"
    /\ input' = [input EXCEPT !.maxCandidates = maxCandidates]
    /\ out' \in generateSuggestions(input')
    /\ pc' = "once"
    /\ UNCHANGED <<out2, serverVars>>

\* A second call with the identical input.
GenerateAgain ==
    /\ pc = "once"
    /\ out2' \in generateSuggestions(input)
    /\ pc' = "twice"
    /\ UNCHANGED <<input, out, serverVars>>

Next ==
    \/ \E m \in MaxCandidatesChoices : Generate(m)
    \/ GenerateAgain

vars == <<engineVars, serverVars>>

Spec == Init /\ [][Next]_vars

\* ------------------------------------------------------ the server running

\* Both users have stored a template; nothing else has happened yet.
ServerInit ==
    /\ input = <<>>
    /\ out = <<>>
    /\ out2 = <<>>
    /\ pc = "server"
    /\ now = StartNow
    /\ templates = {[userId |-> 1, timeZone |-> "UTC", windows |-> FridayAfternoon,
                     updatedAt |-> StartNow - 2],
                    [userId |-> 2, timeZone |-> "UTC", windows |-> FridayAfternoon,
                     updatedAt |-> StartNow - 1]}
    /\ availabilityOverrides = {}
    /\ busyBlocks = {}
    /\ requests = {}
    /\ redis = {}
    /\ events = {}
    /\ idempotencyKeys = {}
    /\ response = [route |-> "none", status |-> 0]

ServerNext ==
    \/ \E u \in Users, w \in TemplateChoices :
            PutTemplate(u, "UTC", w) /\ UNCHANGED engineVars
    \/ \E o \in OverrideChoices :
            CreateOverride(1, o.startAt, o.endAt, o.kind) /\ UNCHANGED engineVars
    \/ \E u \in Users, o \in availabilityOverrides :
            DeleteOverride(u, o.id) /\ UNCHANGED engineVars
    \/ \E u \in Users, busy \in BusyChoices :
            SyncBusy(u, RangeStartUtc(SuggestionBody), RangeEndUtc(SuggestionBody), busy)
            /\ UNCHANGED engineVars
    \/ TimePasses /\ UNCHANGED engineVars
    \/ PostSuggestions(SuggestionBody, TRUE) /\ UNCHANGED engineVars
    \/ \E r \in requests, c \in Confirmations :
            Confirm(r.id, c.body, c.key) /\ UNCHANGED engineVars

ServerSpec == ServerInit /\ [][ServerNext]_vars

\* ------------------------------------------------ computeRequestKey, called

MaxIds == 3

\* Attendee id lists of the caller: any order, ids possibly repeated.
IdLists == UNION {[1..k -> 1..2] : k \in 0..MaxIds} \cup {<<3, 1, 2>>, <<2, 3, 1>>}

KeyShape(z, r, ds, b, ids) ==
    [timeZone |-> z, rangeStart |-> r[1], rangeEnd |-> r[2],
     durationMinutes |-> ds[1], stepMinutes |-> ds[2],
     dayStartMinute |-> b[1], dayEndMinute |-> b[2], attendeeUserIds |-> ids]

\* Request shapes whose fields take two values each.
KeyShapes(ids) ==
    {KeyShape(z, r, ds, b, ids) :
        z \in {"UTC", "America/New_York"},
        r \in {<<0, 1>>, <<1, 1>>, <<0, 0>>},
        ds \in {<<30, 30>>, <<60, 30>>, <<30, 60>>},
        b \in {<<540, 1020>>, <<600, 1020>>, <<540, 600>>}}

\* Two requests: the first of one fixed shape, the second of any shape.
KeyInit ==
    /\ input \in {<<a, b>> : a \in KeyShapes(<<1, 2>>) \cup KeyShapes(<<2, 1, 2>>),
                            b \in UNION {KeyShapes(ids) : ids \in IdLists}}
    /\ out = <<>>
    /\ out2 = <<>>
    /\ pc = "key"
    /\ ServerIdle

ComputeKeys ==
    /\ pc = "key"
    /\ out' = <<computeRequestKey(input[1]), computeRequestKey(input[2])>>
    /\ pc' = "keyed"
    /\ UNCHANGED <<input, out2, serverVars>>

KeyNext == ComputeKeys

KeySpec == KeyInit /\ [][KeyNext]_vars

\* --------------------------------------------- the conflict helpers, called

MaxIntervals == 2

\* Instants of the spans and intervals handed to the helpers.
ConflictInstants == {0, 10, 20, 30}

\* Intervals of three users, proper, empty and inverted ones.
ConflictIntervals ==
    {[userId |-> u, start |-> s, end |-> e] :
        u \in 1..3, s \in ConflictInstants, e \in ConflictInstants}

ConflictInit ==
    /\ input \in {[intervalStart |-> span[1], intervalEnd |-> span[2], intervals |-> l] :
                    span \in {<<10, 20>>, <<0, 30>>},
                    l \in UNION {[1..k -> ConflictIntervals] : k \in 0..MaxIntervals}}
    /\ out = <<>>
    /\ out2 = <<>>
    /\ pc = "conflicts"
    /\ ServerIdle

\* intervalsOverlap of the span with each interval, both ways round.
Overlap ==
    /\ pc = "conflicts"
    /\ out' = [i \in DOMAIN input.intervals |->
                conflictsIntervalsOverlap(input.intervalStart, input.intervalEnd,
                                          input.intervals[i].start, input.intervals[i].end)]
    /\ out2' = [i \in DOMAIN input.intervals |->
                conflictsIntervalsOverlap(input.intervals[i].start, input.intervals[i].end,
                                          input.intervalStart, input.intervalEnd)]
    /\ pc' = "overlap"
    /\ UNCHANGED <<input, serverVars>>

FindConflicts ==
    /\ pc = "conflicts"
    /\ out' = findConflictingUserIds(input.intervalStart, input.intervalEnd, input.intervals)
    /\ pc' = "found"
    /\ UNCHANGED <<input, out2, serverVars>>

ConflictNext == Overlap \/ FindConflicts

ConflictSpec == ConflictInit /\ [][ConflictNext]_vars

\* ------------------------------------------- the interval algebra, called

MaxBase == 2
MaxRemove == 2

\* Minutes of the intervals handed to the algebra: out of range on both
\* sides, and 10, 15 and 25 minutes apart.
BaseMinutes == {-5, 10, 20, 35, 1500}

\* Any pair of minutes: proper, empty and inverted intervals.
BaseIntervals == {[start |-> s, end |-> e] : s \in BaseMinutes, e \in BaseMinutes}

\* The second argument: proper intervals that overlap, touch or lie apart,
\* an inverted one and an empty one.
OtherIntervals ==
    {[start |-> 10, end |-> 20], [start |-> 20, end |-> 35], [start |-> 35, end |-> 50],
     [start |-> 10, end |-> 35], [start |-> 20, end |-> 50], [start |-> 12, end |-> 30],
     [start |-> 35, end |-> 10], [start |-> 20, end |-> 20]}

MinSizes == {1, 15}

IntervalInit ==
    /\ input \in {[base |-> a, other |-> b, minSize |-> ms] :
                    a \in UNION {[1..k -> BaseIntervals] : k \in 0..MaxBase},
                    b \in UNION {[1..k -> OtherIntervals] : k \in 0..MaxRemove},
                    ms \in MinSizes}
    /\ out = <<>>
    /\ out2 = <<>>
    /\ pc = "intervals"
    /\ ServerIdle

Normalize ==
    /\ pc = "intervals"
    /\ out' = normalizeIntervals(input.base, input.minSize)
    /\ pc' = "normalized"
    /\ UNCHANGED <<input, out2, serverVars>>

\* normalizeIntervals applied to its own result.
NormalizeAgain ==
    /\ pc = "normalized"
    /\ out2' = normalizeIntervals(out, input.minSize)
    /\ pc' = "renormalized"
    /\ UNCHANGED <<input, out, serverVars>>

Union ==
    /\ pc = "intervals"
    /\ out' = unionIntervals(input.base, input.other, input.minSize)
    /\ pc' = "united"
    /\ UNCHANGED <<input, out2, serverVars>>

\* subtractIntervals(unionIntervals(A, B), B)
SubtractFromUnion ==
    /\ pc = "united"
    /\ out2' = subtractIntervals(out, input.other, input.minSize)
    /\ pc' = "unsubtracted"
    /\ UNCHANGED <<input, out, serverVars>>

Subtract ==
    /\ pc = "intervals"
    /\ out' = subtractIntervals(input.base, input.other, input.minSize)
    /\ pc' = "subtracted"
    /\ UNCHANGED <<input, out2, serverVars>>

IntervalNext == Normalize \/ NormalizeAgain \/ Union \/ SubtractFromUnion \/ Subtract

IntervalSpec == IntervalInit /\ [][IntervalNext]_vars

\* ------------------------------------------- the resolver of one date, called

MaxResolved == 2

\* The local dates resolved: a Saturday, the Sunday on which the US zones
\* lose an hour, and the Monday after.
ResolvedDates == 0..2

\* Overrides of both kinds: within one day, shorter than a minute, over two
\* and over three local dates, and ending at a local midnight of New York.
ResolverOverrides ==
    {Override(At(0, 15, 0, 0), At(0, 16, 0, 0), "UNAVAILABLE"),
     Override(At(0, 14, 45, 30), At(0, 14, 50, 10), "UNAVAILABLE"),
     Override(At(0, 23, 0, 0), At(1, 14, 30, 0), "UNAVAILABLE"),
     Override(At(0, 20, 0, 0), At(2, 9, 30, 0), "UNAVAILABLE"),
     Override(At(0, 11, 0, 0), At(1, 16, 0, 0), "AVAILABLE"),
     Override(At(0, 14, 0, 0), At(0, 15, 30, 0), "AVAILABLE"),
     Override(At(1, 12, 0, 0), At(2, 4, 0, 0), "AVAILABLE"),
     Override(At(0, 6, 0, 0), At(2, 20, 0, 0), "AVAILABLE")}

ResolverInit ==
    /\ input \in {[timeZone |-> p.timeZone, windows |-> p.windows, overrides |-> o,
                   dateISO |-> d] :
                    p \in BaseProfiles,
                    o \in ListsUpTo(ResolverOverrides, MaxResolved),
                    d \in ResolvedDates}
    /\ out = <<>>
    /\ out2 = <<>>
    /\ pc = "resolver"
    /\ ServerIdle

\* The effective intervals of the date, as isUserAvailableForUtcInterval asks for them.
EffectiveFor(overrides) ==
    computeEffectiveIntervalsForDate(input.timeZone, input.dateISO, Weekday(input.dateISO),
                                     buildWindowsByDay(input.windows),
                                     indexOverridesByLocalDate(input.timeZone, overrides))

Resolve ==
    /\ pc = "resolver"
    /\ out' = EffectiveFor(input.overrides)
    /\ pc' = "resolved"
    /\ UNCHANGED <<input, out2, serverVars>>

\* The same date resolved with the overrides listed in another order.
ResolveReordered ==
    /\ pc = "resolved"
    /\ out2' \in {EffectiveFor(o) :
                    o \in {o \in [DOMAIN input.overrides -> Range(input.overrides)] :
                            Range(o) = Range(input.overrides)}}
    /\ pc' = "reordered"
    /\ UNCHANGED <<input, out, serverVars>>

\* Every override clipped to every date, and the index of the overrides by date.
Clip ==
    /\ pc = "resolver"
    /\ out' = [i \in DOMAIN input.overrides |->
                [d \in -1..3 |->
                    overrideToLocalIntervalForDate(input.overrides[i], d, input.timeZone)]]
    /\ out2' = indexOverridesByLocalDate(input.timeZone, input.overrides)
    /\ pc' = "clipped"
    /\ UNCHANGED <<input, serverVars>>

ResolverNext == Resolve \/ ResolveReordered \/ Clip

ResolverSpec == ResolverInit /\ [][ResolverNext]_vars

\* --------------------------------------- the generator's loops, step by step

\* The inputs of the stepwise run: ranges of no, one and two dates, steps that
\* do and do not divide the day, a duration longer than the day; a morning, and
\* an evening whose windows reach and cross midnight UTC.
LoopRequests ==
    {[timeZone |-> z, rangeStart |-> r[1], rangeEnd |-> r[2],
      durationMinutes |-> ds[1], stepMinutes |-> ds[2],
      dayStartMinute |-> b[1], dayEndMinute |-> b[2]] :
        z \in {"America/New_York", "UTC"},
        r \in {<<0, 0>>, <<0, 1>>, <<1, 0>>},
        ds \in {<<30, 30>>, <<60, 30>>, <<30, 45>>, <<80, 5>>, <<120, 30>>},
        b \in {<<540, 630>>, <<1110, 1200>>}}

LoopAttendeeLists ==
    UNION {{l \in AttendeeLists(n) :
                \/ l = <<>>
                \/ l[1].overrides = <<>>
                \/ l[1].overrides = <<Override(At(0, 11, 0, 0), At(1, 16, 0, 0), "AVAILABLE")>>} :
              n \in 0..MaxAttendees}

\* The accumulators of one window: the two lists, the penalties, the caches.
EmptyScan(caches) ==
    [availableUserIds |-> <<>>, missingUserIds |-> <<>>, penalties |-> <<>>,
     caches |-> caches]

\* Mutant: the inner loop does not advance.
NextOffset_stuck(inp, offset) == offset

\* offset += input.stepMinutes
NextOffset(inp, offset) == offset + inp.stepMinutes

\* preparedAttendees[i]
Prepared(i) == prepareAttendee(input.attendees[i])

\* The locals of generateSuggestions when the loops start: the cursor (a local
\* date), the offset, the attendee index, the accumulators of the window with
\* a new cache for each attendee, the candidates pushed and the
\* (date, offset, attendee) triples resolved so far.
Locals(inp) ==
    [cursor |-> inp.rangeStart, offset |-> inp.dayStartMinute, i |-> 1,
     scan |-> EmptyScan([i \in DOMAIN inp.attendees |-> <<>>]),
     candidates |-> <<>>, resolved |-> <<>>]

\* The same request after the first attendee has added or deleted the
\* AVAILABLE override: the ids and the dates are those of the call before.
OtherData(inp) ==
    IF inp.attendees = <<>> THEN inp
    ELSE [inp EXCEPT !.attendees[1].overrides =
             IF @ = <<>>
             THEN <<Override(At(0, 11, 0, 0), At(1, 16, 0, 0), "AVAILABLE")>>
             ELSE <<>>]

\* The locals of the running call are in `out`.
LoopInit ==
    /\ input \in {WithAttendees(r, l, <<>>) : r \in LoopRequests, l \in LoopAttendeeLists}
    /\ out = Locals(input)
    /\ out2 = <<>>
    /\ pc = "while"
    /\ ServerIdle

\* A later call, for the same attendees and dates with other data.
CallAgain ==
    /\ pc = "returned"
    /\ input' = OtherData(input)
    /\ out' = Locals(input')
    /\ out2' = <<>>
    /\ pc' = "while"
    /\ UNCHANGED serverVars

\* while (cursor <= endDay): the date is entered.
EnterDay ==
    /\ pc = "while"
    /\ StartOfDay(input.timeZone, out.cursor) <= StartOfDay(input.timeZone, input.rangeEnd)
    /\ out' = [out EXCEPT !.offset = input.dayStartMinute]
    /\ pc' = "for"
    /\ UNCHANGED <<input, out2, serverVars>>

\* The while loop is left: sort, slice, rank, return.
Return ==
    /\ pc = "while"
    /\ ~(StartOfDay(input.timeZone, out.cursor) <= StartOfDay(input.timeZone, input.rangeEnd))
    /\ out2' \in {WithRank(SliceTo(sorted, DefaultMaxCandidates)) :
                    sorted \in SortedOrders(out.candidates, DOMAIN out.candidates)}
    /\ pc' = "returned"
    /\ UNCHANGED <<input, out, serverVars>>

\* The for loop's test holds: the window is built (or skipped when it ends
\* after dayEnd) and the loop over the attendees starts.
EnterWindow ==
    /\ pc = "for"
    /\ out.offset + input.durationMinutes <= input.dayEndMinute
    /\ LET cursor == StartOfDay(input.timeZone, out.cursor)
           dayEnd == cursor + input.dayEndMinute * SecondsPerMinute
           endLocal == cursor + (out.offset + input.durationMinutes) * SecondsPerMinute
       IN IF endLocal > dayEnd
          THEN /\ out' = [out EXCEPT !.offset = NextOffset(input, out.offset)]
               /\ pc' = "for"
          ELSE /\ out' = [out EXCEPT !.i = 1, !.scan = EmptyScan(out.scan.caches)]
               /\ pc' = "attendees"
    /\ UNCHANGED <<input, out2, serverVars>>

\* The for loop's test fails: cursor = cursor.plus({ days: 1 }).
LeaveDay ==
    /\ pc = "for"
    /\ ~(out.offset + input.durationMinutes <= input.dayEndMinute)
    /\ out' = [out EXCEPT !.cursor = out.cursor + 1]
    /\ pc' = "while"
    /\ UNCHANGED <<input, out2, serverVars>>

\* One turn of the loop over the attendees: the attendee is resolved for the window.
ResolveAttendee ==
    /\ pc = "attendees"
    /\ out.i <= Len(input.attendees)
    /\ out' = Only({Only({Only({Only({
                  [out EXCEPT !.scan = scan,
                              !.resolved = Append(@, <<out.cursor, out.offset, out.i>>),
                              !.i = out.i + 1] :
                  scan \in {AfterAttendee(w, attendee, out.i, out.scan, result)}}) :
                  result \in {isUserAvailableForUtcInterval(w[1], w[2], attendee,
                                                            out.scan.caches[out.i])}}) :
                  attendee \in {Prepared(out.i)}}) :
                  w \in {<<StartOfDay(input.timeZone, out.cursor)
                              + out.offset * SecondsPerMinute,
                          StartOfDay(input.timeZone, out.cursor)
                              + (out.offset + input.durationMinutes) * SecondsPerMinute>>}})
    /\ pc' = "attendees"
    /\ UNCHANGED <<input, out2, serverVars>>

\* The attendees are done: the candidate is pushed unless nobody can attend.
PushCandidate ==
    /\ pc = "attendees"
    /\ out.i > Len(input.attendees)
    /\ LET cursor == StartOfDay(input.timeZone, out.cursor)
           w == <<cursor + out.offset * SecondsPerMinute,
                  cursor + (out.offset + input.durationMinutes) * SecondsPerMinute>>
       IN out' = [out EXCEPT
                     !.candidates = @ \o BuildCandidate(w, Len(input.attendees), out.scan),
                     !.offset = NextOffset(input, out.offset)]
    /\ pc' = "for"
    /\ UNCHANGED <<input, out2, serverVars>>

LoopNext ==
    \/ EnterDay
    \/ Return
    \/ EnterWindow
    \/ LeaveDay
    \/ ResolveAttendee
    \/ PushCandidate
    \/ CallAgain

LoopSpec == LoopInit /\ [][LoopNext]_vars

\* ------------------------------------------- confirmations running together

\* The confirm handlers that can be in flight at once.
MaxHandlers == 2
Handlers == 1..MaxHandlers

\* Mutant: the table has no unique index on (sourceRequestId, sourceCandidateRank).
UniqueViolation_noIndex(created) == FALSE

\* ScheduledEvent_sourceRequestId_sourceCandidateRank_key: the insert of
\* `created` is refused when a row with the same pair is there.
UniqueViolation(created) ==
    \E e \in events : /\ e.sourceRequestId = created.sourceRequestId
                      /\ e.sourceCandidateRank = created.sourceCandidateRank

\* The server of ServerInit; `out` holds, for each handler, the confirmation it
\* has in its transaction (a list, empty when the handler is idle).
RaceInit ==
    /\ input = <<>>
    /\ out = [h \in Handlers |-> <<>>]
    /\ out2 = <<>>
    /\ pc = "race"
    /\ now = StartNow
    /\ templates = {[userId |-> 1, timeZone |-> "UTC", windows |-> FridayAfternoon,
                     updatedAt |-> StartNow - 2],
                    [userId |-> 2, timeZone |-> "UTC", windows |-> FridayAfternoon,
                     updatedAt |-> StartNow - 1]}
    /\ availabilityOverrides = {}
    /\ busyBlocks = {}
    /\ requests = {}
    /\ redis = {}
    /\ events = {}
    /\ idempotencyKeys = {}
    /\ response = [route |-> "none", status |-> 0]

\* POST confirm by handler h up to the findFirst of its transaction: the
\* idempotency lookup, the request row, the fingerprint and conflict checks.
\* A replayed or rejected confirmation is answered at once.
BeginConfirm(h, requestId, body, key) ==
    /\ out[h] = <<>>
    /\ \E idempotencyResponse \in {getIdempotencyResponse(key, <<requestId, body>>)} :
        IF idempotencyResponse.type = "response"
        THEN /\ response' = idempotencyResponse.response
             /\ UNCHANGED <<out, events>>
        ELSE IF idempotencyResponse.type = "conflict"
        THEN /\ response' = ConfirmResponse(409, "idempotency_conflict", <<>>)
             /\ UNCHANGED <<out, events>>
        ELSE IF idempotencyResponse.type = "incomplete"
        THEN /\ response' = ConfirmResponse(429, "idempotency_in_progress", <<>>)
             /\ UNCHANGED <<out, events>>
        ELSE \E outcome \in {ConfirmOutcome(requestId, body, order) :
                                order \in StorageOrders(requestId)} :
                IF outcome.response.status # 200
                THEN /\ response' = outcome.response
                     /\ UNCHANGED <<out, events>>
                ELSE /\ out' = [out EXCEPT ![h] =
                                   <<[requestId |-> requestId, body |-> body, key |-> key,
                                      response |-> outcome.response,
                                      created |-> outcome.events \ events]>>]
                     /\ UNCHANGED <<response, events>>
    /\ UNCHANGED <<input, out2, pc, now, templates, availabilityOverrides, busyBlocks,
                   requests, redis, idempotencyKeys>>

\* The rest of handler h: the existing event is returned, or the event is
\* created (the insert throws when the unique index refuses it, and the
\* handler answers 500), then the response is stored under the key.
CommitConfirm(h) ==
    /\ out[h] # <<>>
    /\ \E t \in {out[h][1]} :
        IF t.created = {}
        THEN /\ response' = t.response
             /\ events' = events
             /\ idempotencyKeys' =
                    saveIdempotencyResponse(t.key, <<t.requestId, t.body>>, t.response)
        ELSE \E created \in {[e EXCEPT !.id = Cardinality(events) + 1] : e \in t.created} :
             IF UniqueViolation(created)
             THEN /\ response' = ConfirmResponse(500, "internal_error", <<>>)
                  /\ UNCHANGED <<events, idempotencyKeys>>
             ELSE \E answer \in {ConfirmResponse(200, "ok", <<created>>)} :
                  /\ response' = answer
                  /\ events' = events \cup {created}
                  /\ idempotencyKeys' =
                         saveIdempotencyResponse(t.key, <<t.requestId, t.body>>, answer)
    /\ out' = [out EXCEPT ![h] = <<>>]
    /\ UNCHANGED <<input, out2, pc, now, templates, availabilityOverrides, busyBlocks,
                   requests, redis>>

RaceNext ==
    \/ PostSuggestions(SuggestionBody, TRUE) /\ UNCHANGED engineVars
    \/ \E o \in OverrideChoices :
            CreateOverride(1, o.startAt, o.endAt, o.kind) /\ UNCHANGED engineVars
    \/ \E h \in Handlers, r \in requests, c \in Confirmations :
            BeginConfirm(h, r.id, c.body, c.key)
    \/ \E h \in Handlers : CommitConfirm(h)

RaceSpec == RaceInit /\ [][RaceNext]_vars

\* ------------------------------------------------- claims about the engine

\* Half-open overlap of two spans of instants.
SpansOverlap(aStart, aEnd, bStart, bEnd) == aStart < bEnd /\ bStart < aEnd

AttendeeOf(id) == CHOOSE a \in Range(input.attendees) : a.userId = id

Returned == Range(out)

\* Minute m of local date `date` (counted from local midnight) meets override o.
TouchesMinute(o, z, date, m) ==
    LET from == StartOfDay(z, date) + m * SecondsPerMinute
    IN /\ m >= 0
       /\ m < MinutesPerDay
       /\ from < StartOfDay(z, date + 1)
       /\ o.startAt < from + SecondsPerMinute
       /\ o.endAt > from

\* Minute m of local date `date` is available to attendee a: inside a weekly
\* window of that weekday or an AVAILABLE override, and in no UNAVAILABLE one.
MinuteAvailable(a, date, m) ==
    /\ \/ \E w \in Range(a.windows) :
            /\ w.dayOfWeek = Weekday(date)
            /\ Max(0, w.startMinute) <= m
            /\ m < Min(MinutesPerDay, w.endMinute)
       \/ \E o \in Range(a.overrides) :
            o.kind = "AVAILABLE" /\ TouchesMinute(o, a.timeZone, date, m)
    /\ ~\E o \in Range(a.overrides) :
            o.kind = "UNAVAILABLE" /\ TouchesMinute(o, a.timeZone, date, m)

\* The span [startAt, endAt) lies on one local date of attendee a and every
\* minute of it is available to a.
FullyAvailable(a, startAt, endAt) ==
    LET z == a.timeZone
        date == LocalDate(z, startAt)
        dayStart == StartOfDay(z, date)
    IN /\ LocalDate(z, endAt) = date
       /\ \A m \in ((startAt - dayStart) \div SecondsPerMinute) ..
                   (CeilDiv(endAt - dayStart, SecondsPerMinute) - 1) :
            MinuteAvailable(a, date, m)

\* C1: no UNAVAILABLE override of an attendee listed in a returned candidate's
\* availableUserIds overlaps the candidate's span [startAt, endAt).
C1_NoUnavailableOverlap ==
    pc # "ready" =>
        \A c \in Returned : \A id \in Range(c.availableUserIds) :
            \A o \in Range(AttendeeOf(id).overrides) :
                o.kind = "UNAVAILABLE" =>
                    ~SpansOverlap(c.startAt, c.endAt, o.startAt, o.endAt)

\* A window the weekly template covers is cut by an UNAVAILABLE override, and the
\* same attendee is available in another, returned, candidate.
C1_Witness ==
    /\ pc = "once"
    /\ \E a \in Range(input.attendees) :
        /\ \E c \in Returned : a.userId \in Range(c.availableUserIds)
        /\ \E i \in DOMAIN Windows(input, input.rangeStart) :
            LET w == Windows(input, input.rangeStart)[i]
            IN /\ FullyAvailable([a EXCEPT !.overrides = <<>>], w[1], w[2])
               /\ \E o \in Range(a.overrides) :
                    /\ o.kind = "UNAVAILABLE"
                    /\ SpansOverlap(w[1], w[2], o.startAt, o.endAt)
               /\ \A c \in Returned : c.startAt = w[1] =>
                    a.userId \in Range(c.missingUserIds)

C3_AttendanceFloor ==
    pc # "ready" =>
        /\ \A c \in Returned :
            /\ c.attendanceRatio > 0
            /\ c.attendanceRatio * Len(input.attendees)
                    = ScoreOne * Len(c.availableUserIds)
            /\ Len(c.availableUserIds) > 0
        /\ (input.attendees = <<>> => out = <<>>)

\* A window nobody can attend is left out while another one, attended by a part
\* of the attendees, is returned.
C3_Witness ==
    /\ pc = "once"
    /\ input.maxCandidates = <<>>
    /\ \E c \in Returned : c.attendanceRatio < ScoreOne
    /\ \E i \in DOMAIN Windows(input, input.rangeStart) :
        \A c \in Returned : c.startAt # Windows(input, input.rangeStart)[i][1]

\* a sorts at or before b: total descending, then attendance descending, then
\* fairness descending, then startAt ascending.
AtOrBefore(a, b) ==
    \/ a.score.total > b.score.total
    \/ /\ a.score.total = b.score.total
       /\ \/ a.score.attendance > b.score.attendance
          \/ /\ a.score.attendance = b.score.attendance
             /\ \/ a.score.fairness > b.score.fairness
                \/ /\ a.score.fairness = b.score.fairness
                   /\ a.startAt <= b.startAt

\* C4: the returned list is in ranking order and position i carries rank i.
C4_RankedOrder ==
    pc # "ready" =>
        /\ \A i, j \in DOMAIN out : i < j =>
            AtOrBefore(out[i], out[j]) /\ ~AtOrBefore(out[j], out[i])
        /\ \A i \in DOMAIN out : out[i].rank = i

\* The order is decided once by the total and once, on equal scores, by startAt.
C4_Witness ==
    /\ pc = "once"
    /\ \E i, j \in DOMAIN out : i < j /\ out[i].score.total > out[j].score.total
    /\ \E i, j \in DOMAIN out :
        /\ i < j
        /\ out[i].score = out[j].score
        /\ out[i].startAt < out[j].startAt
    /\ \E i, j \in DOMAIN out : i < j /\ out[i].startAt > out[j].startAt

EffectiveMaxCandidates ==
    IF input.maxCandidates = <<>> THEN DefaultMaxCandidates ELSE input.maxCandidates[1]

\* C5: for maxCandidates >= 0 at most maxCandidates candidates are returned, as
\* many as there are feasible windows up to that cap, and every feasible window
\* left out sorts at or after every returned candidate.
C5_BestWithinCap ==
    (pc # "ready" /\ EffectiveMaxCandidates >= 0) =>
        LET feasible == Unranked(input)
        IN /\ Len(out) = Min(EffectiveMaxCandidates, Len(feasible))
           /\ \A c \in Returned : \E u \in Range(feasible) :
                u.startAt = c.startAt /\ u.score = c.score
           /\ \A u \in Range(feasible) :
                (\A c \in Returned : c.startAt # u.startAt) =>
                    \A c \in Returned : AtOrBefore(c, u)

\* The cap cuts the list: more feasible windows than maxCandidates, and a
\* window left out that scores below a returned one.
C5_Witness ==
    /\ pc = "once"
    /\ input.maxCandidates = <<2>>
    /\ Len(out) = 2
    /\ \E u \in Range(Unranked(input)) :
        /\ \A c \in Returned : c.startAt # u.startAt
        /\ u.startAt < out[1].startAt
        /\ u.score.total < out[2].score.total

PenaltyOf(a, c) ==
    penaltyForLocalInterval(minutesSinceStartOfDay(a.timeZone, c.startAt),
                            minutesSinceStartOfDay(a.timeZone, c.endAt))

RECURSIVE SumOver(_, _)
SumOver(ids, c) ==
    IF ids = <<>> THEN 0 ELSE PenaltyOf(AttendeeOf(Head(ids)), c) + SumOver(Tail(ids), c)

\* C7: fairness = 1 - the largest penalty among the available attendees,
\* inconvenience = 1 - their mean penalty, total = 0.6 attendance
\* + 0.2 inconvenience + 0.2 fairness; one available attendee of penalty 1
\* brings fairness to 0.
C7_Scores ==
    pc # "ready" =>
        \A c \in Returned :
            LET ids == c.availableUserIds
                worst == CHOOSE p \in {PenaltyOf(AttendeeOf(id), c) : id \in Range(ids)} :
                            \A id \in Range(ids) : PenaltyOf(AttendeeOf(id), c) <= p
            IN /\ 100 * c.score.fairness = ScoreOne * (100 - worst)
               /\ 100 * Len(ids) * c.score.inconvenience
                    = ScoreOne * (100 * Len(ids) - SumOver(ids, c))
               /\ 10 * c.score.total
                    = 6 * c.score.attendance + 2 * c.score.inconvenience
                      + 2 * c.score.fairness
               /\ c.score.total >= 0 /\ c.score.total <= ScoreOne
               /\ ((\E id \in Range(ids) : PenaltyOf(AttendeeOf(id), c) = 100)
                    => c.score.fairness = 0)

\* Two available attendees, one at penalty 1 and one at penalty 0: fairness 0,
\* inconvenience 0.5.
C7_Witness ==
    /\ pc = "once"
    /\ \E c \in Returned :
        /\ \E id \in Range(c.availableUserIds) : PenaltyOf(AttendeeOf(id), c) = 100
        /\ \E id \in Range(c.availableUserIds) : PenaltyOf(AttendeeOf(id), c) = 0
        /\ c.score.fairness = 0
        /\ 2 * c.score.inconvenience = ScoreOne

\* ------------------------------------------------- claims about the server

\* The fingerprint the confirm handler would compute now for a request row.
CurrentFingerprint(r) ==
    loadSuggestionAvailabilityState(r.attendees, r.rangeStart, r.rangeEnd, now).dataFingerprint

\* The request row's recorded fingerprint differs from the one computed now.
Stale(r) == r.dataFingerprint # <<>> /\ r.dataFingerprint[1] # CurrentFingerprint(r)

\* The confirmation gets as far as recomputing the fingerprint: it is not
\* answered from an idempotency record and the candidate rank exists.
ReachesRecomputation(r, c) ==
    /\ getIdempotencyResponse(c.key, <<r.id, c.body>>).type = "none"
    /\ \E i \in DOMAIN r.candidates : r.candidates[i].rank = c.body.candidateRank

\* C8: a confirmation whose recomputed dataFingerprint differs from the one
\* recorded for the request is answered 409 conflict_detected, and no
\* confirmation of a stale request creates a ScheduledEvent.
C8_StaleConfirmationRejected ==
    [][\A r \in requests :
        Stale(r) =>
            \A c \in Confirmations :
                Confirm(r.id, c.body, c.key) =>
                    /\ events' = events
                    /\ ReachesRecomputation(r, c) =>
                            (response'.status = 409
                             /\ response'.code = "conflict_detected")]_vars

C8_Witness ==
    /\ response.route = "suggestions.confirm"
    /\ response.code = "conflict_detected"
    /\ \E r \in requests : Stale(r)

\* The stored data a request depends on: its attendees' templates, and their
\* overrides and busy blocks within the request's range.
DataOf(r) ==
    <<{t \in templates : t.userId \in Range(r.attendees)},
      {o \in availabilityOverrides :
        o.userId \in Range(r.attendees) /\ o.startAt < r.rangeEnd /\ o.endAt > r.rangeStart},
      {b \in busyBlocks :
        b.userId \in Range(r.attendees) /\ b.startUtc < r.rangeEnd
        /\ b.endUtc > r.rangeStart}>>

\* C9: staleness detection is complete. When the fingerprint recorded for a
\* request still matches and a template, override or busy block of one of its
\* attendees is then created, updated or deleted within its range, the
\* fingerprint computed afterwards differs from the recorded one.
C9_EveryChangeDetected ==
    [][\A r \in requests :
        (r \in requests' /\ ~Stale(r) /\ DataOf(r)' # DataOf(r)) =>
            r.dataFingerprint # <<CurrentFingerprint(r)'>>]_vars

\* What generateSuggestions can return on the attendees' current data.
CurrentSuggestions ==
    generateSuggestions(
        EngineInput(SuggestionBody, ensureSortedUnique(SuggestionBody.attendeeUserIds),
            loadSuggestionAvailabilityState(
                ensureSortedUnique(SuggestionBody.attendeeUserIds),
                RangeStartUtc(SuggestionBody), RangeEndUtc(SuggestionBody), now)))

\* C10: when POST /suggestions/requests reuses the cached candidate set, the
\* candidates stored and returned are what generateSuggestions returns on the
\* current data.
C10_ReuseIsCurrent ==
    (response.route = "suggestions.requests" /\ response.status = 200
     /\ response.usedCache)
        => response.candidates \in CurrentSuggestions

\* ------------------------------------------- claims about computeRequestKey

\* How often id x occurs in a list.
Occurrences(ids, x) == Cardinality({i \in DOMAIN ids : ids[i] = x})

\* The two lists hold the same ids the same number of times.
IsPermutation(a, b) == \A x \in Range(a) \cup Range(b) : Occurrences(a, x) = Occurrences(b, x)

SameOtherFields(a, b) ==
    /\ a.timeZone = b.timeZone
    /\ a.rangeStart = b.rangeStart /\ a.rangeEnd = b.rangeEnd
    /\ a.durationMinutes = b.durationMinutes /\ a.stepMinutes = b.stepMinutes
    /\ a.dayStartMinute = b.dayStartMinute /\ a.dayEndMinute = b.dayEndMinute

\* C11: two requests get the same key exactly when their seven scalar fields
\* are equal and their attendee id lists are permutations of each other
\* (equal as sorted sequences).
C11_KeyIgnoresOrderOnly ==
    pc = "keyed" =>
        (out[1] = out[2]
            <=> (SameOtherFields(input[1], input[2])
                 /\ IsPermutation(input[1].attendeeUserIds, input[2].attendeeUserIds)))

C11_Witness ==
    /\ pc = "keyed"
    /\ out[1] = out[2]
    /\ input[1].attendeeUserIds # input[2].attendeeUserIds

\* --------------------------------------------- claims about the fingerprint

\* The times at which the fingerprint of a request is computed: at generation
\* and at a confirmation two weeks later.
ComputeTimes == {now, now + 14 * SecondsPerDay}

FingerprintAt(order, r, t) ==
    loadSuggestionAvailabilityState(order, r.rangeStart, r.rangeEnd, t).dataFingerprint

\* C12: over the same stored data the dataFingerprint of a request is the
\* same for every order in which its attendee ids are supplied and for every
\* time at which it is computed.
C12_FingerprintPure ==
    \A r \in requests :
        \A order \in StorageOrders(r.id), t \in ComputeTimes :
            FingerprintAt(order, r, t) = FingerprintAt(r.attendees, r, now)

\* ------------------------------------------ claims about the conflict helpers

\* C13: intervalsOverlap is true exactly when aStart < bEnd and bStart < aEnd;
\* intervals that touch at an endpoint do not overlap, a proper interval
\* contained in the other overlaps it, and swapping the two intervals gives
\* the same result.
C13_HalfOpenOverlap ==
    pc = "overlap" =>
        \A i \in DOMAIN input.intervals :
            LET aStart == input.intervalStart
                aEnd == input.intervalEnd
                bStart == input.intervals[i].start
                bEnd == input.intervals[i].end
            IN /\ out[i] <=> (aStart < bEnd /\ bStart < aEnd)
               /\ (aEnd = bStart \/ bEnd = aStart) => ~out[i]
               /\ (aStart <= bStart /\ bStart < bEnd /\ bEnd <= aEnd) => out[i]
               /\ out2[i] = out[i]

C13_Witness ==
    /\ pc = "overlap"
    /\ \E i, j \in DOMAIN input.intervals :
        /\ input.intervals[i].start = input.intervalEnd /\ ~out[i]
        /\ input.intervals[j].start > input.intervalStart
        /\ input.intervals[j].end < input.intervalEnd /\ out[j]

\* The owners of an interval that shares an instant of [intervalStart, intervalEnd).
OverlappingOwners ==
    {input.intervals[i].userId : i \in
        {i \in DOMAIN input.intervals :
            input.intervals[i].start < input.intervalEnd
            /\ input.intervalStart < input.intervals[i].end}}

\* C14: findConflictingUserIds returns the owners of the overlapping
\* intervals, each once, in ascending order, and no owner whose intervals
\* only touch the span.
C14_ConflictingUsers ==
    pc = "found" =>
        /\ Range(out) = OverlappingOwners
        /\ \A i, j \in DOMAIN out : i < j => out[i] < out[j]

C14_Witness ==
    /\ pc = "found"
    /\ Len(input.intervals) = 2
    /\ input.intervals[1].userId > input.intervals[2].userId
    /\ Len(out) = 2

\* ------------------------------------------ claims about the interval algebra

\* C15: normalizing a normalized list with the same minSize changes nothing.
C15_NormalizeIdempotent == pc = "renormalized" => out2 = out

C15_Witness ==
    /\ pc = "renormalized"
    /\ Len(input.base) = 2
    /\ Len(out) = 1
    /\ out[1] \notin Range(input.base)

\* Some minute lies in an interval of a and in an interval of b.
ShareMinute(a, b) ==
    \E i \in DOMAIN a, j \in DOMAIN b :
        /\ a[i].start < a[i].end /\ b[j].start < b[j].end
        /\ a[i].start < b[j].end /\ b[j].start < a[i].end

\* C16: for lists A and B with no minute in common,
\* subtractIntervals(unionIntervals(A, B), B) = normalizeIntervals(A).
C16_SubtractUndoesUnion ==
    (pc = "unsubtracted" /\ ~ShareMinute(input.base, input.other))
        => out2 = normalizeIntervals(input.base, input.minSize)

\* An interval of A and one of B touch and the union merges them.
C16_Witness ==
    /\ pc = "unsubtracted"
    /\ ~ShareMinute(input.base, input.other)
    /\ out2 # <<>>
    /\ Len(out) = 1
    /\ \E i \in DOMAIN input.base, j \in DOMAIN input.other :
        /\ input.base[i].end = input.other[j].start
        /\ out[1].start <= clampMinute(input.base[i].start)
        /\ out[1].end >= input.other[j].end
        /\ input.base[i].end - clampMinute(input.base[i].start) >= input.minSize

\* Minute m lies in an interval of the list.
InList(l, m) == \E i \in DOMAIN l : l[i].start <= m /\ m < l[i].end

\* Minute m is left by the subtraction: in normalize(base), not in normalize(remove).
Left(m) ==
    /\ InList(normalizeIntervals(input.base, input.minSize), m)
    /\ ~InList(normalizeIntervals(input.other, input.minSize), m)

\* The minutes at which membership in either normalized list can change.
Breakpoints ==
    UNION {UNION {{l[i].start, l[i].end} : i \in DOMAIN l} :
           l \in {normalizeIntervals(input.base, input.minSize),
                  normalizeIntervals(input.other, input.minSize)}}
    \cup {0, MinutesPerDay}

\* The maximal runs of minutes left, those shorter than minSize dropped.
LeftPieces ==
    {piece \in {[start |-> s, end |-> CHOOSE e \in Breakpoints :
                                        /\ e > s /\ ~Left(e)
                                        /\ \A p \in Breakpoints : (p > s /\ p < e) => Left(p)] :
                    s \in {s \in Breakpoints : Left(s) /\ ~Left(s - 1)}} :
        piece.end - piece.start >= input.minSize}

\* C17: subtractIntervals returns, in order of start, the maximal runs of
\* minutes that are in normalize(base) and in no interval of
\* normalize(remove), without the runs shorter than minSize.
C17_SubtractExact ==
    pc = "subtracted" =>
        /\ Range(out) = LeftPieces
        /\ \A i, j \in DOMAIN out : i < j => out[i].start < out[j].start

\* Two removals cut one base interval: a left, a middle and a right piece,
\* of which the algebra keeps those of minSize or more.
C17_Witness ==
    /\ pc = "subtracted"
    /\ Len(normalizeIntervals(input.base, input.minSize)) = 1
    /\ Len(normalizeIntervals(input.other, input.minSize)) = 2
    /\ Len(out) >= 2
    /\ out[1].start = normalizeIntervals(input.base, input.minSize)[1].start
    /\ out[Len(out)].end = normalizeIntervals(input.base, input.minSize)[1].end

\* A normalized set for minSize: valid, long enough, sorted and separated.
IsNormalizedSet(l, minSize) ==
    /\ \A i \in DOMAIN l :
        /\ 0 <= l[i].start /\ l[i].start < l[i].end /\ l[i].end <= MinutesPerDay
        /\ l[i].end - l[i].start >= minSize
    /\ \A i \in DOMAIN l : i > 1 => l[i].start > l[i - 1].end

\* C18: every list returned by normalizeIntervals, unionIntervals and
\* subtractIntervals is a normalized set for the minSize of the call.
C18_ResultsNormalized ==
    /\ pc \in {"normalized", "united", "subtracted"} => IsNormalizedSet(out, input.minSize)
    /\ pc \in {"renormalized", "unsubtracted"} => IsNormalizedSet(out2, input.minSize)

\* Touching intervals were merged into one.
C18_Witness ==
    /\ pc = "united"
    /\ Len(out) = 1
    /\ \E i \in DOMAIN input.base, j \in DOMAIN input.other :
        /\ input.base[i].start = 10 /\ input.base[i].end = 20
        /\ input.other[j].start = 20 /\ input.other[j].end = 35
        /\ out[1] = [start |-> 10, end |-> 35]

\* ------------------------------------------------ claims about the resolver

\* The local-clipped intervals of the overrides of one kind that touch the date.
ClippedOfKind(kind) ==
    UNION {Range(overrideToLocalIntervalForDate(input.overrides[i], input.dateISO,
                                                input.timeZone)) :
            i \in {i \in DOMAIN input.overrides : input.overrides[i].kind = kind}}

\* The weekly windows of the weekday of the date.
WindowsOfDate ==
    {[start |-> input.windows[i].startMinute, end |-> input.windows[i].endMinute] :
        i \in {i \in DOMAIN input.windows :
                input.windows[i].dayOfWeek = Weekday(input.dateISO)}}

InSome(S, m) == \E iv \in S : iv.start <= m /\ m < iv.end

\* Minute m is in a window or an AVAILABLE clip and in no UNAVAILABLE clip.
Effective(windows, adds, removes, m) ==
    (InSome(windows, m) \/ InSome(adds, m)) /\ ~InSome(removes, m)

DayMinutes == 0..(MinutesPerDay - 1)

\* C19: the effective intervals of a date cover exactly the minutes of the
\* day that lie in a weekly window of the weekday or in a clipped AVAILABLE
\* override and in no clipped UNAVAILABLE override; they form a normalized
\* set for minSize 1; and the order of the overrides does not matter.
C19_EffectiveIntervals ==
    /\ pc \in {"resolved", "reordered"} =>
        /\ \A windows \in {WindowsOfDate}, adds \in {ClippedOfKind("AVAILABLE")},
              removes \in {ClippedOfKind("UNAVAILABLE")} :
                \A m \in DayMinutes : InList(out, m) <=> Effective(windows, adds, removes, m)
        /\ IsNormalizedSet(out, 1)
    /\ pc = "reordered" => out2 = out

\* An AVAILABLE override listed after an UNAVAILABLE one that cuts it.
C19_Witness ==
    /\ pc = "reordered"
    /\ Len(input.overrides) = 2
    /\ input.overrides[1].kind = "UNAVAILABLE"
    /\ input.overrides[2].kind = "AVAILABLE"
    /\ out # <<>>
    /\ \E adds \in {ClippedOfKind("AVAILABLE")}, removes \in {ClippedOfKind("UNAVAILABLE")} :
        \E m \in DayMinutes : InSome(adds, m) /\ InSome(removes, m) /\ ~InList(out, m)

\* The dates every override is clipped to.
ClippedDates == -1..3

\* The part of override o inside local date d, as the claim describes it:
\* from the override's start, or 0, to the override's end, or dayLength.
ClaimedClip(o, d, z, dayLength) ==
    LET dayStart == StartOfDay(z, d)
        dayEnd == StartOfDay(z, d + 1)
    IN IF o.startAt < dayEnd /\ o.endAt > dayStart /\ o.startAt < o.endAt
       THEN <<[start |-> IF o.startAt > dayStart
                         THEN (o.startAt - dayStart) \div SecondsPerMinute ELSE 0,
               end |-> IF o.endAt < dayEnd
                       THEN CeilDiv(o.endAt - dayStart, SecondsPerMinute) ELSE dayLength]>>
       ELSE <<>>

\* C20: an override is indexed under every local date it touches, and
\* clipped to a date it yields the minutes since local midnight from its
\* start (0 if it starts before the date) to its end (1440 if it ends after
\* the date), and null for a date it does not touch.
C20_ClippedPerDate ==
    pc = "clipped" =>
        \A i \in DOMAIN input.overrides, d \in ClippedDates :
            /\ out[i][d] = ClaimedClip(input.overrides[i], d, input.timeZone, MinutesPerDay)
            /\ out[i][d] # <<>> =>
                (d \in DOMAIN out2 /\ input.overrides[i] \in Range(out2[d]))

\* ------------------------------------- claims about the candidate generator

\* The UTC instant of wall-clock minute `minute` of local date `date` in zone z.
WallClockInstant(z, date, minute) ==
    LET wall == date * SecondsPerDay + minute * SecondsPerMinute
        t1 == wall - SecondsPerMinute * ZoneRule(z).before
    IN IF t1 < ZoneRule(z).at THEN t1 ELSE wall - SecondsPerMinute * ZoneRule(z).after

\* The offsets dayStartMinute + k * stepMinutes whose window ends by dayEndMinute.
ClaimedOffsets ==
    {offset \in input.dayStartMinute .. input.dayEndMinute :
        /\ (offset - input.dayStartMinute) % input.stepMinutes = 0
        /\ offset + input.durationMinutes <= input.dayEndMinute}

\* The windows [date + offset, date + offset + durationMinutes) of the range,
\* local times of day of the request's zone.
ClaimedWindows ==
    {<<WallClockInstant(input.timeZone, date, offset),
       WallClockInstant(input.timeZone, date, offset + input.durationMinutes)>> :
        date \in input.rangeStart .. input.rangeEnd, offset \in ClaimedOffsets}

\* The claimed windows in which at least one attendee is available.
FeasibleClaimedWindows ==
    {w \in ClaimedWindows : \E a \in Range(input.attendees) : FullyAvailable(a, w[1], w[2])}

\* C21: every returned candidate is a window [date + offset, date + offset +
\* durationMinutes) of a local date of the range, lasts durationMinutes, and
\* every such window with an available attendee is a candidate, up to the cap.
C21_WindowsEvaluated ==
    (pc # "ready" /\ EffectiveMaxCandidates >= 0) =>
        /\ \A c \in Returned :
            /\ <<c.startAt, c.endAt>> \in ClaimedWindows
            /\ c.endAt - c.startAt = input.durationMinutes * SecondsPerMinute
        /\ Len(out) = Min(EffectiveMaxCandidates, Cardinality(FeasibleClaimedWindows))

\* The dates of the range, the offsets of a date.
LoopDates == input.rangeStart .. input.rangeEnd
LoopOffsets == Offsets(input, input.dayStartMinute)

\* Each (date, offset, attendee) triple was resolved at most once, each is one
\* of dates x offsets x attendees, and the run that returned gives what
\* generateSuggestions gives.
WorkBounded ==
    /\ \A j, k \in DOMAIN out.resolved : j # k => out.resolved[j] # out.resolved[k]
    /\ \A j \in DOMAIN out.resolved :
        /\ out.resolved[j][1] \in LoopDates
        /\ out.resolved[j][2] \in Range(LoopOffsets)
        /\ out.resolved[j][3] \in DOMAIN input.attendees
    /\ Len(out.resolved) <= Cardinality(LoopDates) * Len(LoopOffsets) * Len(input.attendees)
    /\ pc = "returned" =>
        /\ Len(out.resolved) = Cardinality(LoopDates) * Len(LoopOffsets) * Len(input.attendees)
        /\ out2 \in generateSuggestions(input)

\* The steps a run has left: one to enter and one to leave each date, one to
\* enter each window, one for each attendee of it and one to push, one to return.
StepsLeft ==
    LET perWindow == Len(input.attendees) + 2
        perDay == 2 + Len(LoopOffsets) * perWindow
        days == Max(0, input.rangeEnd - out.cursor + 1)
        offsets == Len(Offsets(input, out.offset))
    IN CASE pc = "while" -> days * perDay + 1
         [] pc = "for" -> (days - 1) * perDay + 2 + offsets * perWindow
         [] pc = "attendees" ->
                (days - 1) * perDay + 2 + (offsets - 1) * perWindow
                    + (Len(input.attendees) - out.i + 1) + 1
         [] OTHER -> 0

\* A run that has not returned can take a step.
CanStep ==
    pc # "returned" =>
        \/ ENABLED EnterDay
        \/ ENABLED Return
        \/ ENABLED EnterWindow
        \/ ENABLED LeaveDay
        \/ pc = "attendees" /\ out.i <= Len(input.attendees)
        \/ ENABLED PushCandidate

\* C22: with stepMinutes >= 1, durationMinutes >= 1 and a finite range the
\* call returns: every step of it leaves fewer steps to take and a step is possible
\* until the call has returned; each (date, offset, attendee) triple is
\* resolved at most once, so the work is bounded by dates x offsets x attendees.
C22_TerminatesWithBoundedWork ==
    /\ [](WorkBounded /\ CanStep /\ StepsLeft >= 0 /\ (StepsLeft = 0 <=> pc = "returned"))
    /\ [][pc # "returned" => StepsLeft' < StepsLeft]_vars

\* A run over two dates, two offsets and two attendees has returned.
C22_Witness ==
    /\ pc = "returned"
    /\ input.stepMinutes >= 1 /\ input.durationMinutes >= 1
    /\ Cardinality(LoopDates) = 2 /\ Len(LoopOffsets) = 2 /\ Len(input.attendees) = 2
    /\ Len(out.resolved) = 8

\* The window the stepwise run is at, and the attendee it resolved last.
LoopWindow ==
    <<StartOfDay(input.timeZone, out.cursor) + out.offset * SecondsPerMinute,
      StartOfDay(input.timeZone, out.cursor)
          + (out.offset + input.durationMinutes) * SecondsPerMinute>>

\* The window starts and ends on different local dates of zone z.
CrossesMidnight(z, w) == LocalDate(z, w[1]) # LocalDate(z, w[2])

\* C23: an attendee in whose zone the window's local start and end dates
\* differ (also when it ends exactly at the attendee's midnight) is put in
\* missingUserIds whatever the templates and overrides say, and nothing is
\* resolved or cached for that attendee and window.
C23_CrossMidnightMissing ==
    [][(pc = "attendees" /\ out'.i = out.i + 1
           /\ CrossesMidnight(input.attendees[out.i].timeZone, LoopWindow)) =>
          /\ out'.scan.missingUserIds
                = Append(out.scan.missingUserIds, input.attendees[out.i].userId)
          /\ out'.scan.availableUserIds = out.scan.availableUserIds
          /\ out'.scan.penalties = out.scan.penalties
          /\ out'.scan.caches = out.scan.caches]_vars

\* A UTC attendee whose Saturday window is the whole day and who has added
\* Saturday 11:00 to Sunday 16:00 was just resolved for a window that ends
\* exactly at midnight UTC, and is missing.
C23_Witness ==
    /\ pc = "attendees" /\ out.i = 2
    /\ input.attendees[1].timeZone = "UTC"
    /\ input.attendees[1].windows = AllDay
    /\ input.attendees[1].overrides # <<>>
    /\ LoopWindow[2] = At(1, 0, 0, 0)
    /\ out.scan.missingUserIds = <<1>>
    /\ out.scan.caches[1] = <<>>

\* The claimed step function of the local start and end minute, in hundredths.
ClaimedPenalty(startMinute, endMinute) ==
    IF startMinute >= 9 * 60 /\ endMinute <= 17 * 60 THEN 0
    ELSE IF startMinute >= 8 * 60 /\ endMinute <= 18 * 60 THEN 25
    ELSE IF startMinute >= 7 * 60 /\ endMinute <= 19 * 60 THEN 60
    ELSE 100

\* The minute of the day a local time shows.
WallMinute(local) == (local.wall % SecondsPerDay) \div SecondsPerMinute

\* C24: the penalty a candidate reports for an attendee is the step function
\* 0 / 0.25 / 0.6 / 1 of the local start and end minute reported with it.
C24_PenaltySteps ==
    \A c \in Returned :
        \A i \in DOMAIN c.explanation.worstLocalTime :
            c.explanation.worstLocalTime[i].penalty
                = ClaimedPenalty(WallMinute(c.explanation.worstLocalTime[i].localStart),
                                 WallMinute(c.explanation.worstLocalTime[i].localEnd))

\* The largest penalty among the available attendees of candidate c.
WorstPenalty(c) ==
    Max(0, CHOOSE p \in {PenaltyOf(AttendeeOf(id), c) : id \in Range(c.availableUserIds)} \cup {0} :
               \A id \in Range(c.availableUserIds) : PenaltyOf(AttendeeOf(id), c) <= p)

\* C25: a candidate's explanation has the worst-local-time entry exactly when
\* an available attendee has a nonzero penalty, and the entry names an
\* available attendee whose penalty is the largest among the available ones.
C25_WorstWhenNonzero ==
    \A c \in Returned :
        /\ c.explanation.worstLocalTime # <<>> <=> WorstPenalty(c) > 0
        /\ \A i \in DOMAIN c.explanation.worstLocalTime :
            /\ c.explanation.worstLocalTime[i].userId \in Range(c.availableUserIds)
            /\ c.explanation.worstLocalTime[i].penalty = WorstPenalty(c)
            /\ PenaltyOf(AttendeeOf(c.explanation.worstLocalTime[i].userId), c)
                   = WorstPenalty(c)

\* The two lists and the penalties of a window when every attendee is resolved
\* with an empty cache: caching disabled.
RECURSIVE UncachedScan(_, _, _)
UncachedScan(w, i, acc) ==
    IF i > Len(input.attendees) THEN acc
    ELSE UncachedScan(w, i + 1,
             [AfterAttendee(w, Prepared(i), i, acc,
                  isUserAvailableForUtcInterval(w[1], w[2], Prepared(i), <<>>))
              EXCEPT !.caches = acc.caches])

\* The candidates the loops push with caching disabled.
RECURSIVE UncachedCandidates(_)
UncachedCandidates(windows) ==
    IF windows = <<>> THEN <<>>
    ELSE BuildCandidate(Head(windows), Len(input.attendees),
                        UncachedScan(Head(windows), 1,
                                     EmptyScan([i \in DOMAIN input.attendees |-> <<>>])))
         \o UncachedCandidates(Tail(windows))

\* The lists a call returns with caching disabled.
UncachedResults ==
    UNION {{WithRank(SliceTo(sorted, DefaultMaxCandidates)) :
               sorted \in SortedOrders(candidates, DOMAIN candidates)} :
           candidates \in {UncachedCandidates(Windows(input, input.rangeStart))}}

\* The fields of a scan but the caches.
ListsOf(scan) == <<scan.availableUserIds, scan.missingUserIds, scan.penalties>>

\* Every cache entry of attendee i is the fresh resolution of its date.
CacheIsFresh(caches, i) ==
    \A date \in (input.rangeStart - 1) .. (input.rangeEnd + 1) :
        <<input.attendees[i].userId, date>> \in DOMAIN caches[i] =>
            caches[i][<<input.attendees[i].userId, date>>]
                = computeEffectiveIntervalsForDate(
                      input.attendees[i].timeZone, date, Weekday(date),
                      Prepared(i).baseByDay, Prepared(i).overridesByDate)

\* C26: the cache is transparent and private to one call: each attendee is
\* resolved as with an empty cache, every cache entry equals a fresh
\* resolution, the call returns what it returns with caching disabled, and a
\* later call starts with empty caches also when the call before it has
\* filled entries for the same attendees and dates.
C26_CacheTransparent ==
    /\ [](/\ \A i \in DOMAIN input.attendees : CacheIsFresh(out.scan.caches, i)
          /\ pc = "returned" => out2 \in UncachedResults)
    /\ [][/\ (pc = "attendees" /\ out'.i = out.i + 1) =>
               \E fresh \in {isUserAvailableForUtcInterval(
                                 LoopWindow[1], LoopWindow[2], Prepared(out.i), <<>>)} :
                   ListsOf(out'.scan)
                       = ListsOf(AfterAttendee(LoopWindow, Prepared(out.i), out.i,
                                               out.scan, fresh))
          /\ pc = "returned" =>
               \A i \in DOMAIN input'.attendees : out'.scan.caches[i] = <<>>]_vars

\* A call over two dates has returned with a cache entry for each date of its
\* first attendee, whose intervals differ between the dates; the call before it
\* ran with other data for the same attendee and dates.
C26_Witness ==
    /\ pc = "returned"
    /\ Len(out2) > 0
    /\ Len(input.attendees) > 0
    /\ input.attendees[1].overrides # <<>>
    /\ <<1, 0>> \in DOMAIN out.scan.caches[1]
    /\ <<1, 1>> \in DOMAIN out.scan.caches[1]
    /\ out.scan.caches[1][<<1, 0>>] # out.scan.caches[1][<<1, 1>>]

\* The sublist of the attendees' ids, in input order, that are in S.
RECURSIVE IdsIn(_, _)
IdsIn(attendees, S) ==
    IF attendees = <<>> THEN <<>>
    ELSE (IF Head(attendees).userId \in S THEN <<Head(attendees).userId>> ELSE <<>>)
         \o IdsIn(Tail(attendees), S)

\* C27: in every returned candidate availableUserIds and missingUserIds
\* partition the attendees: each attendee's id is in exactly one of the lists,
\* no other id is, and each list is in input order.
C27_ListsPartition ==
    \A c \in Returned :
        /\ Range(c.availableUserIds) \cup Range(c.missingUserIds)
               = {a.userId : a \in Range(input.attendees)}
        /\ Range(c.availableUserIds) \cap Range(c.missingUserIds) = {}
        /\ c.availableUserIds = IdsIn(input.attendees, Range(c.availableUserIds))
        /\ c.missingUserIds = IdsIn(input.attendees, Range(c.missingUserIds))

\* A candidate with the first attendee missing and the second available.
C27_Witness ==
    \E c \in Returned :
        /\ Len(input.attendees) = 2
        /\ c.missingUserIds = <<1>>
        /\ c.availableUserIds = <<2>>

\* The users the conflict check of a confirmation finds now for candidate c of
\* request row r.
ConflictsNow(r, c) ==
    ConflictUserIds(c.startAt, c.endAt,
        loadSuggestionAvailabilityState(r.attendees, r.rangeStart, r.rangeEnd, now))

\* The conflict check reports no available attendee of any candidate of r:
\* the conflicting ids are among the candidate's missingUserIds.
Agree(r) ==
    \A i \in DOMAIN r.candidates :
        /\ Range(ConflictsNow(r, r.candidates[i]))
               \cap Range(r.candidates[i].availableUserIds) = {}
        /\ Range(ConflictsNow(r, r.candidates[i]))
               \subseteq Range(r.candidates[i].missingUserIds)

\* C28: generation and confirmation agree on unchanged data. While the
\* fingerprint recorded for a request matches the current one (as it does
\* when nothing has changed, and otherwise the confirmation is rejected before
\* the conflict check), the conflict check finds no available attendee of any
\* of its candidates: the conflicting ids are among missingUserIds.
C28_GenerationAgreesWithConflictCheck ==
    \A r \in requests : ~Stale(r) => Agree(r)

\* A confirmation was answered 409 conflict for a candidate with an available
\* attendee, the conflicting attendee being listed as missing.
C28_Witness ==
    /\ response.route = "suggestions.confirm"
    /\ response.code = "conflict"
    /\ \E r \in requests :
        /\ Agree(r)
        /\ \E i \in DOMAIN r.candidates :
            /\ r.candidates[i].availableUserIds # <<>>
            /\ ConflictsNow(r, r.candidates[i]) # <<>>

\* ------------------------------------------- claims about confirmations

\* C29: for a request and candidate rank at most one ScheduledEvent exists,
\* however the confirmations interleave and with or without a key; a handler
\* that found the event returns it and creates none, and a confirmation that
\* is answered with anything but 200 creates none.
C29_OneEventPerCandidate ==
    /\ [](\A e1, e2 \in events :
            (e1.sourceRequestId = e2.sourceRequestId
             /\ e1.sourceCandidateRank = e2.sourceCandidateRank) => e1 = e2)
    /\ [][/\ events \subseteq events'
          /\ (response' # response /\ response'.route = "suggestions.confirm"
              /\ response'.status # 200) => events' = events
          /\ \A h \in Handlers :
                (out[h] # <<>> /\ out'[h] = <<>> /\ out[h][1].created = {}) =>
                    /\ events' = events
                    /\ response'.status = 200
                    /\ Range(response'.event) \subseteq events]_vars

\* Two handlers were in their transactions for the same candidate at once: one
\* created the event, the other's insert was refused.
C29_Witness ==
    /\ response.route = "suggestions.confirm"
    /\ response.status = 500
    /\ Cardinality(events) = 1
    /\ \A h \in Handlers : out[h] = <<>>

\* The header carries a key: it is present and not made of spaces only.
CarriesKey(key) == key # <<>> /\ \E i \in DOMAIN key[1] : key[1][i] # " "

\* The record stored under the key of the header, as a set.
StoredUnder(key) ==
    {e \in idempotencyKeys :
        /\ CarriesKey(key)
        /\ \E i, j \in DOMAIN key[1] :
            /\ e.key = SubSeq(key[1], i, j)
            /\ key[1][i] # " " /\ key[1][j] # " "
            /\ \A k \in DOMAIN key[1] : (k < i \/ k > j) => key[1][k] = " "}

\* Nothing the server stores changes.
StoredDataUnchanged ==
    UNCHANGED <<events, idempotencyKeys, requests, templates, availabilityOverrides,
                busyBlocks, redis>>

\* C30: a confirmation with a key under which a response is stored returns the
\* stored status and body when its request hash is the stored one, whatever
\* the fingerprint and conflict checks would say now, and is answered 409
\* idempotency_conflict when the hash differs; neither changes stored data.
\* With a missing or blank key the lookup finds nothing, nothing is saved and
\* no record is ever stored under a blank key.
C30_IdempotentConfirm ==
    /\ [](/\ \A e \in idempotencyKeys : CarriesKey(<<e.key>>)
          /\ \A r \in requests, c \in Confirmations :
                ~CarriesKey(c.key) =>
                    /\ getIdempotencyResponse(c.key, <<r.id, c.body>>).type = "none"
                    /\ saveIdempotencyResponse(c.key, <<r.id, c.body>>, response)
                            = idempotencyKeys)
    /\ [][\A r \in requests, c \in Confirmations :
            (/\ response'.route = "suggestions.confirm"
             /\ StoredUnder(c.key) # {}
             /\ Confirm(r.id, c.body, c.key)) =>
                \A e \in StoredUnder(c.key) :
                    IF e.requestHash = <<r.id, c.body>>
                    THEN /\ response' = e.responseBody
                         /\ response'.status = e.responseStatus[1]
                         /\ StoredDataUnchanged
                    ELSE /\ response'.status = 409
                         /\ response'.code = "idempotency_conflict"
                         /\ StoredDataUnchanged]_vars

\* A confirmation was answered with the 200 stored under its key although the
\* request's fingerprint no longer matches.
C30_Witness ==
    /\ response.route = "suggestions.confirm"
    /\ response.status = 200
    /\ \E e \in idempotencyKeys : e.responseBody = response
    /\ Waits = 0
    /\ \E r \in requests :
        /\ Stale(r)
        /\ \A ev \in Range(response.event) : ev.sourceRequestId = r.id
====
